---- MODULE Spec2Model ----
(***************************************************************************)
(* Playback control layer of react-native-audio-pro: the JS facade         *)
(* (AudioPro), its store, and the Android controller (AudioProController)  *)
(* with its main-looper queue, session set-up and engine listener.         *)
(*                                                                         *)
(* Units: volume and playback speed are integers in 1/100000 (1.0 is       *)
(* 100000); positions and durations are milliseconds scaled to small       *)
(* integers; a negative duration stands for the engine's TIME_UNSET.       *)
(***************************************************************************)
EXTENDS Integers, Sequences, FiniteSets, TLC

\* ---------------------------------------------------------------- bounds
\* Blocks waiting on the main looper, and session builds under way, in the
\* specifications of playback; session builds under way in the specification of
\* commands racing the session set-up.
MaxQueue == 2
MaxPending == 1
RacePending == 2
\* Blocks waiting on the main looper in the specification of commands racing a
\* teardown.
TeardownQueue == 3
MaxSeeks == 2

\* ------------------------------------------------------- state constants
STATE_IDLE == "IDLE"
STATE_STOPPED == "STOPPED"
STATE_LOADING == "LOADING"
STATE_PLAYING == "PLAYING"
STATE_PAUSED == "PAUSED"
STATE_ERROR == "ERROR"
NoState == ""

NoTrack == [none |-> TRUE]
\* A nullable value (Long?, error record or null) is <<>> or <<v>>.
None == <<>>
Some(v) == <<v>>

\* ------------------------------------------------------------ JS values
\* A JS string is a sequence of chunks: a scheme prefix, a blank, or other text.
Str(chunks) == [t |-> "string", s |-> chunks]
Undefined == [t |-> "undefined"]
Num == [t |-> "number"]
IsString(v) == v.t = "string"

RECURSIVE DropBlanks(_)
DropBlanks(s) ==
    IF s = <<>> THEN <<>>
    ELSE IF Head(s) = " " THEN DropBlanks(Tail(s)) ELSE s

Reverse(s) == [i \in 1..Len(s) |-> s[Len(s) + 1 - i]]

\* String.prototype.trim
Trim(s) == Reverse(DropBlanks(Reverse(DropBlanks(s))))

\* !v.trim() for a string v
Blank(v) == Trim(v.s) = <<>>

isValidUrl(url) ==
    IF ~IsString(url) \/ url.s = <<>> \/ Blank(url) THEN FALSE ELSE TRUE

\* validateTrack that does not look at the artwork.
validateTrack_artworkUnchecked(track) ==
    /\ track # NoTrack
    /\ IsString(track.id) /\ ~Blank(track.id)
    /\ IsString(track.url) /\ ~Blank(track.url) /\ isValidUrl(track.url)
    /\ IsString(track.title) /\ ~Blank(track.title)
    /\ (track.album # Undefined => IsString(track.album))
    /\ (track.artist # Undefined => IsString(track.artist))

validateTrack(track) ==
    /\ track # NoTrack
    /\ IsString(track.id) /\ ~Blank(track.id)
    /\ IsString(track.url) /\ ~Blank(track.url) /\ isValidUrl(track.url)
    /\ IsString(track.title) /\ ~Blank(track.title)
    /\ IsString(track.artwork) /\ ~Blank(track.artwork) /\ isValidUrl(track.artwork)
    /\ (track.album # Undefined => IsString(track.album))
    /\ (track.artist # Undefined => IsString(track.artist))

\* JS numbers: the integers of the model (in the unit of the quantity) and NaN,
\* with which every comparison is false and every Math.min and Math.max is NaN.
NaN == -2147483647
Less(a, b) == a # NaN /\ b # NaN /\ a < b
LessEq(a, b) == a # NaN /\ b # NaN /\ a <= b
MathMin(a, b) == IF a = NaN \/ b = NaN THEN NaN ELSE IF a < b THEN a ELSE b
MathMax(a, b) == IF a = NaN \/ b = NaN THEN NaN ELSE IF a > b THEN a ELSE b
MathAbs(a) == IF a = NaN THEN NaN ELSE IF a < 0 THEN -a ELSE a

\* Math.max(lo, Math.min(hi, v))
Clamp(lo, hi, v) == MathMax(lo, MathMin(hi, v))

\* parseFloat(v.toFixed(2)): the nearest 1/100, NaN for NaN.
ToFixed2(v) == IF v = NaN THEN NaN ELSE ((v + 500) \div 1000) * 1000

normalizeVolume(volume) ==
    IF volume = 0 \/ Less(MathAbs(volume), 100) THEN 0
    ELSE IF Less(99500, volume) /\ LessEq(volume, 100000) THEN 100000
    ELSE LET clampedVolume == Clamp(0, 100000, volume)
         IN  ToFixed2(clampedVolume)

\* ---------------------------------------------------------- configuration
\* An options object: a key that is missing is None, a key with a value v is
\* Some(v).
NoOptions ==
    [progressIntervalMs |-> None, showNextPrevControls |-> None,
     showSkipControls |-> None]

DEFAULT_CONFIG ==
    [progressIntervalMs |-> Some(1000), showNextPrevControls |-> Some(TRUE),
     showSkipControls |-> Some(FALSE)]

\* { ...base, ...over }
Spread(base, over) ==
    [k \in DOMAIN base |-> IF over[k] = None THEN base[k] ELSE over[k]]

\* options.hasKey(k) ? options.get(k) : default
OptionOr(options, k, default) == IF options[k] = None THEN default ELSE options[k][1]

\* The settings extractPlaybackOptions stores in the controller.
extractPlaybackOptions(options) ==
    LET showControls == OptionOr(options, "showNextPrevControls", TRUE)
        showSkip == OptionOr(options, "showSkipControls", TRUE)
    IN  [progressIntervalMs |-> OptionOr(options, "progressIntervalMs", 1000),
         showNextPrevControls |-> showControls,
         showSkipControls |-> IF showControls /\ showSkip THEN FALSE ELSE showSkip]

\* ------------------------------------------------------------ inputs
BaseTrack ==
    [id |-> Str(<<"x">>), url |-> Str(<<"http://", "x">>), title |-> Str(<<"x">>),
     artwork |-> Str(<<"http://", "x">>), album |-> Undefined, artist |-> Undefined]

PlayTracks ==
    { BaseTrack,
      [BaseTrack EXCEPT !.id = Str(<<>>)],
      [BaseTrack EXCEPT !.artwork = Str(<<" ">>)] }

\* What the engine reports when asked: currentPosition and duration (negative for
\* TIME_UNSET).
KnownReadings == {[pos |-> 2, dur |-> 5]}
Readings == KnownReadings \cup {[pos |-> 0, dur |-> -1]}
SeekTargets == {-1, 3}
StartTimes == {None, Some(4)}
Volumes == {50000}
Speeds == {300000}
SkipAmounts == {0, 2}
AmbientUrls == {Str(<<"http://", "x">>), Str(<<>>), Undefined}
\* Speeds and volumes below, within and above the accepted ranges.
AnySpeeds == {10000, 150000, 300000, NaN}
AnyVolumes == {-100000, 55555, 150000, NaN}
\* Arguments of normalizeVolume: a grid of 1/40 from -0.1 to 1.1, the values
\* around the thresholds 0.001 and 0.995, the values of the tests, and NaN.
VolumeInputs ==
    {2500 * k : k \in -4..44}
      \cup {-50000, -101, -100, -99, -50, 50, 99, 100, 101, 55555, 99499, 99500,
            99501, 99800, 150000, NaN}
\* Arguments of validateTrack: null, and tracks with each field well formed, empty,
\* blank, of another type or missing, and urls with and without a known scheme.
UrlInputs ==
    {Str(<<"http://", "x">>), Str(<<"ftp://", "x">>), Str(<<"x">>), Str(<<>>),
     Str(<<" ">>), Num}
TrackInputs ==
    {NoTrack}
      \cup [id : {Str(<<"x">>), Str(<<>>), Str(<<" ">>), Num},
            url : UrlInputs,
            title : {Str(<<"x">>)},
            artwork : {Str(<<"http://", "x">>)},
            album : {Undefined},
            artist : {Undefined}]
      \cup [id : {Str(<<"x">>)},
            url : {Str(<<"http://", "x">>)},
            title : {Str(<<"x">>), Str(<<>>), Undefined},
            artwork : {Str(<<"http://", "x">>), Str(<<"x">>), Str(<<" ">>)},
            album : {Undefined, Str(<<"x">>), Num},
            artist : {Undefined, Num}]
\* Options given to configure() and, over the stored configuration, to play().
ConfigureInputs ==
    { [NoOptions EXCEPT !.showSkipControls = Some(TRUE)],
      [NoOptions EXCEPT !.showNextPrevControls = Some(TRUE),
                        !.showSkipControls = Some(TRUE)],
      [NoOptions EXCEPT !.showNextPrevControls = Some(FALSE),
                        !.showSkipControls = Some(TRUE)],
      [NoOptions EXCEPT !.progressIntervalMs = Some(50)] }
PlayInputs ==
    { NoOptions,
      [NoOptions EXCEPT !.showNextPrevControls = Some(TRUE),
                        !.showSkipControls = Some(TRUE)] }
Intervals == {20000}
\* The message of the PlaybackException handed to onPlayerError, or null.
ErrorMessages == {None, Some("decoder failed")}

\* ------------------------------------------------------------- events
StateEvt(s, p, d, t) ==
    [type |-> "STATE_CHANGED", state |-> s, position |-> p, duration |-> d, track |-> t]
NoticeEvt(ty, p, d, t) == [type |-> ty, position |-> p, duration |-> d, track |-> t]
SeekEvt(p, d, by, t) ==
    [type |-> "SEEK_COMPLETE", position |-> p, duration |-> d, triggeredBy |-> by,
     track |-> t]
ErrorEvt(code, t) == [type |-> "PLAYBACK_ERROR", errorCode |-> code, track |-> t]
\* The PLAYBACK_ERROR of the controller, which carries the message it was given.
PlayerErrorEvt(message, code, t) ==
    [type |-> "PLAYBACK_ERROR", error |-> message, errorCode |-> code, track |-> t]

VARIABLES
    internalStore,            \* JS store (facade side)
    enginerBrowser,           \* controller: session connected (non-null)
    enginePlayerListener,     \* controller: listener attached
    engineProgressRunnable,   \* controller: progress timer scheduled
    activeTrack, activeVolume, activePlaybackSpeed,
    settings,                 \* controller: settingProgressIntervalMs, settingShow*
    flowIsInErrorState, flowLastEmittedState, flowPendingSeekPosition,
    uiQueue,                  \* blocks posted with runOnUiThread, FIFO
    pendingSessions,          \* suspended internalPrepareSession calls
    emitted,                  \* events emitted by the last step
    engineCalls,              \* MediaBrowser calls made by the last step
    nativeCalls,              \* NativeAudioPro calls made by the last step
    lastStateEvt,             \* the latest STATE_CHANGED emitted so far
    lastOp,                   \* the last step taken and its inputs
    progressRun,              \* the progress runnable: idle, inside run(), or stray
    unsent,                   \* speed and volume set without a native call since
                              \* the last play() or clear()
    seeksInFlight,            \* engine seeks of the facade not yet answered by a
                              \* discontinuity (counted up to limits.seeks)
    limits                    \* the bounds of the exploration, fixed at the start

vars ==
    <<internalStore, enginerBrowser, enginePlayerListener,
      engineProgressRunnable, activeTrack, activeVolume, activePlaybackSpeed,
      settings, flowIsInErrorState, flowLastEmittedState, flowPendingSeekPosition,
      uiQueue, pendingSessions, emitted, engineCalls, nativeCalls, lastStateEvt,
      lastOp, progressRun, unsent, seeksInFlight, limits>>

ctrlVars ==
    <<enginerBrowser, enginePlayerListener, engineProgressRunnable, activeTrack,
      activeVolume, activePlaybackSpeed, settings, flowIsInErrorState,
      flowLastEmittedState, flowPendingSeekPosition, uiQueue, pendingSessions>>

Op(name, arg) == [op |-> name, arg |-> arg]
NoArg == [none |-> TRUE]

InitWith(l) ==
    /\ limits = l
    /\ internalStore =
         [playerState |-> STATE_IDLE, position |-> 0, duration |-> 0,
          trackPlaying |-> NoTrack, volume |-> 100000, playbackSpeed |-> 100000,
          error |-> None, configureOptions |-> DEFAULT_CONFIG]
    /\ settings =
         [progressIntervalMs |-> 1000, showNextPrevControls |-> TRUE,
          showSkipControls |-> FALSE]
    /\ enginerBrowser = FALSE
    /\ enginePlayerListener = FALSE
    /\ engineProgressRunnable = FALSE
    /\ progressRun = "idle"
    /\ unsent = [speed |-> None, volume |-> None]
    /\ seeksInFlight = 0
    /\ activeTrack = NoTrack
    /\ activeVolume = 100000
    /\ activePlaybackSpeed = 100000
    /\ flowIsInErrorState = FALSE
    /\ flowLastEmittedState = NoState
    /\ flowPendingSeekPosition = None
    /\ uiQueue = <<>>
    /\ pendingSessions = <<>>
    /\ emitted = <<>>
    /\ engineCalls = <<>>
    /\ nativeCalls = <<>>
    /\ lastStateEvt = StateEvt(NoState, 0, 0, NoTrack)
    /\ lastOp = Op("init", NoArg)

Init == InitWith([queue |-> MaxQueue, pending |-> MaxPending, seeks |-> 0, handOver |-> FALSE])

InitRace == InitWith([queue |-> MaxQueue, pending |-> RacePending, seeks |-> 0, handOver |-> FALSE])

InitTeardown == InitWith([queue |-> TeardownQueue, pending |-> MaxPending, seeks |-> 0, handOver |-> FALSE])

InitHandOver ==
    InitWith([queue |-> TeardownQueue, pending |-> MaxPending, seeks |-> 0,
              handOver |-> TRUE])

InitSeeks == InitWith([queue |-> MaxQueue, pending |-> MaxPending, seeks |-> MaxSeeks, handOver |-> FALSE])

\* ------------------------------------------------------ controller helpers
Sanitize(v) == IF v < 0 THEN 0 ELSE v

\* duration.takeIf { d -> d > 0 } ?: 0L
PositiveOrZero(d) == IF d > 0 THEN d ELSE 0

\* The three filters of emitState: TRUE when the state event goes out.
emitStateAllowed(state, last, err) ==
    /\ ~(state = STATE_PAUSED /\ last = STATE_STOPPED)
    /\ ~(state = STATE_STOPPED /\ err)
    /\ state # last

\* emitState called with flowLastEmittedState = last, flowIsInErrorState = err and
\* activeTrack = track: the new flowLastEmittedState and the events sent.
emitState(state, position, duration, last, err, track) ==
    IF emitStateAllowed(state, last, err)
    THEN [last |-> state,
          evts |-> <<StateEvt(state, Sanitize(position), Sanitize(duration), track)>>]
    ELSE [last |-> last, evts |-> <<>>]

emitNotice(eventType, position, duration, track) ==
    <<NoticeEvt(eventType, Sanitize(position), Sanitize(duration), track)>>

emitError(message, code, track) == <<PlayerErrorEvt(message, code, track)>>

StateEvtsOf(evts) == SelectSeq(evts, LAMBDA e : e.type = "STATE_CHANGED")

\* ------------------------------------------------------ store subscription
\* The store's handler for one native event.
updateFromEvent(store, e) ==
    IF e.type = "STATE_CHANGED"
    THEN [store EXCEPT !.playerState = e.state, !.position = e.position,
                       !.duration = e.duration,
                       !.trackPlaying = IF e.state = STATE_ERROR THEN NoTrack ELSE @]
    ELSE IF e.type = "PLAYBACK_ERROR"
    THEN [store EXCEPT !.error = Some([errorCode |-> e.errorCode])]
    ELSE IF e.type = "PLAYBACK_SPEED_CHANGED"
    THEN [store EXCEPT !.playbackSpeed = e.speed]
    ELSE [store EXCEPT !.position = e.position, !.duration = e.duration]

\* The store after the events of one step, taken in emission order.
RECURSIVE updateFromEvents(_, _)
updateFromEvents(store, evts) ==
    IF evts = <<>> THEN store
    ELSE updateFromEvents(updateFromEvent(store, Head(evts)), Tail(evts))

\* Bookkeeping common to every step: what the step was, the events it emitted on
\* the JS emitter (jsEvts) and through the native bridge (evts), the MediaBrowser
\* calls and the NativeAudioPro calls it made.
\* The values the facade stored without calling NativeAudioPro, kept until a
\* later call sends one, play() hands them on or clear() resets the player
\* (recorded when limits.handOver is set).
Unsent(name, arg) ==
    IF ~limits.handOver THEN unsent
    ELSE IF name = "setPlaybackSpeed"
    THEN [unsent EXCEPT !.speed = IF arg.sent THEN None
                                  ELSE Some(Clamp(25000, 200000, arg.speed))]
    ELSE IF name = "setVolume"
    THEN [unsent EXCEPT !.volume = IF arg.sent THEN None
                                   ELSE Some(normalizeVolume(Clamp(0, 100000, arg.volume)))]
    ELSE IF name = "clear" \/ (name = "play" /\ arg.valid)
    THEN [speed |-> None, volume |-> None]
    ELSE unsent

HasCall(calls, name) == \E i \in DOMAIN calls : calls[i][1] = name

\* The engine seeks issued for the facade (by seekTo's block, and by READY for a
\* pending seek) that no seek-class discontinuity has answered yet.
InFlight(name, arg, calls) ==
    IF name = "DISCONTINUITY" /\ arg.reason \in {"SEEK", "SEEK_ADJUSTMENT"}
    THEN (IF seeksInFlight > 0 THEN seeksInFlight - 1 ELSE 0)
    ELSE IF /\ name \in {"ui_seekTo", "READY"}
            /\ HasCall(calls, "seekTo")
            /\ seeksInFlight < limits.seeks
    THEN seeksInFlight + 1
    ELSE seeksInFlight

Trace(name, arg, jsEvts, evts, calls, native) ==
    /\ lastOp' = Op(name, arg)
    /\ unsent' = Unsent(name, arg)
    /\ seeksInFlight' = InFlight(name, arg, calls)
    /\ UNCHANGED limits
    /\ emitted' = jsEvts \o evts
    /\ engineCalls' = calls
    /\ nativeCalls' = native
    /\ lastStateEvt' =
         LET st == StateEvtsOf(evts)
         IN  IF st = <<>> THEN lastStateEvt ELSE st[Len(st)]

\* A step during which the progress runnable does not move.
Ghost(name, arg, jsEvts, evts, calls, native) ==
    /\ Trace(name, arg, jsEvts, evts, calls, native)
    /\ UNCHANGED progressRun

\* A step of the controller: its events reach the store's subscription.
Record(name, arg, evts, calls) ==
    /\ Ghost(name, arg, <<>>, evts, calls, <<>>)
    /\ internalStore' = updateFromEvents(internalStore, evts)
    /\ UNCHANGED settings

\* ensureSession: a session build is started when none is connected.
ensureSession(pend) ==
    IF enginerBrowser THEN pend ELSE Append(pend, [kind |-> "ensure"])

SessionRoom == enginerBrowser \/ Len(pendingSessions) < limits.pending

\* enginerBrowser?.currentPosition ?: 0L and enginerBrowser?.duration ?: 0L, with r
\* what the engine reports.
Position(r) == IF enginerBrowser THEN r.pos ELSE 0
Duration(r) == IF enginerBrowser THEN r.dur ELSE 0

\* ------------------------------------------------- engine listener callbacks
\* Player.Listener callbacks run on the main looper while a listener is attached.
\* pos, dur, playWhenReady and isPlaying are what the engine reports at that time.

\* onIsPlayingChanged that sends its state past the filters of emitState.
onIsPlayingChanged_unfiltered(isPlaying, r) ==
    /\ enginePlayerListener
    /\ LET state == IF isPlaying THEN STATE_PLAYING ELSE STATE_PAUSED
       IN  /\ flowLastEmittedState' = state
           /\ engineProgressRunnable' = isPlaying
           /\ Record("IS_PLAYING", [isPlaying |-> isPlaying],
                     <<StateEvt(state, Sanitize(Position(r)), Sanitize(Duration(r)),
                                activeTrack)>>, <<>>)
    /\ UNCHANGED <<enginerBrowser, enginePlayerListener, activeTrack,
                   activeVolume, activePlaybackSpeed, flowIsInErrorState,
                   flowPendingSeekPosition, uiQueue, pendingSessions>>

onIsPlayingChanged(isPlaying, r) ==
    /\ enginePlayerListener
    /\ LET e == emitState(IF isPlaying THEN STATE_PLAYING ELSE STATE_PAUSED, Position(r), Duration(r),
                          flowLastEmittedState, flowIsInErrorState, activeTrack)
       IN  /\ flowLastEmittedState' = e.last
           /\ engineProgressRunnable' = isPlaying
           /\ Record("IS_PLAYING", [isPlaying |-> isPlaying], e.evts, <<>>)
    /\ UNCHANGED <<enginerBrowser, enginePlayerListener, activeTrack,
                   activeVolume, activePlaybackSpeed, flowIsInErrorState,
                   flowPendingSeekPosition, uiQueue, pendingSessions>>

\* onBuffering that emits PAUSED whenever play is not intended.
onBuffering_pausedAlways(isPlayIntended, r) ==
    /\ enginePlayerListener
    /\ LET e == emitState(IF isPlayIntended THEN STATE_LOADING ELSE STATE_PAUSED,
                          Position(r), Duration(r), flowLastEmittedState,
                          flowIsInErrorState, activeTrack)
       IN  /\ flowLastEmittedState' = e.last
           /\ Record("BUFFERING", [isPlayIntended |-> isPlayIntended], e.evts, <<>>)
    /\ UNCHANGED <<enginerBrowser, enginePlayerListener,
                   engineProgressRunnable, activeTrack, activeVolume,
                   activePlaybackSpeed, flowIsInErrorState, flowPendingSeekPosition,
                   uiQueue, pendingSessions>>

onBuffering(isPlayIntended, r) ==
    /\ enginePlayerListener
    /\ LET e == IF isPlayIntended
                THEN emitState(STATE_LOADING, Position(r), Duration(r), flowLastEmittedState,
                               flowIsInErrorState, activeTrack)
                ELSE IF flowLastEmittedState = STATE_PLAYING
                THEN emitState(STATE_PAUSED, Position(r), Duration(r), flowLastEmittedState,
                               flowIsInErrorState, activeTrack)
                ELSE [last |-> flowLastEmittedState, evts |-> <<>>]
       IN  /\ flowLastEmittedState' = e.last
           /\ Record("BUFFERING", [isPlayIntended |-> isPlayIntended], e.evts, <<>>)
    /\ UNCHANGED <<enginerBrowser, enginePlayerListener,
                   engineProgressRunnable, activeTrack, activeVolume,
                   activePlaybackSpeed, flowIsInErrorState, flowPendingSeekPosition,
                   uiQueue, pendingSessions>>

\* onReady that takes the pending seek as done once it has issued it.
onReady_clearsPending(isActuallyPlaying, r) ==
    /\ enginePlayerListener
    /\ LET e == emitState(IF isActuallyPlaying THEN STATE_PLAYING ELSE STATE_PAUSED,
                          Position(r), Duration(r), flowLastEmittedState, flowIsInErrorState,
                          activeTrack)
           seek == IF flowPendingSeekPosition # None /\ enginerBrowser
                   THEN <<<<"seekTo", flowPendingSeekPosition[1]>>>> ELSE <<>>
       IN  /\ flowLastEmittedState' = e.last
           /\ engineProgressRunnable' = isActuallyPlaying
           /\ Record("READY", [isPlaying |-> isActuallyPlaying], e.evts, seek)
    /\ flowPendingSeekPosition' = None
    /\ UNCHANGED <<enginerBrowser, enginePlayerListener, activeTrack,
                   activeVolume, activePlaybackSpeed, flowIsInErrorState,
                   uiQueue, pendingSessions>>

onReady(isActuallyPlaying, r) ==
    /\ enginePlayerListener
    /\ LET e == emitState(IF isActuallyPlaying THEN STATE_PLAYING ELSE STATE_PAUSED,
                          Position(r), Duration(r), flowLastEmittedState, flowIsInErrorState,
                          activeTrack)
           seek == IF flowPendingSeekPosition # None /\ enginerBrowser
                   THEN <<<<"seekTo", flowPendingSeekPosition[1]>>>> ELSE <<>>
       IN  /\ flowLastEmittedState' = e.last
           /\ engineProgressRunnable' = isActuallyPlaying
           /\ Record("READY", [isPlaying |-> isActuallyPlaying], e.evts, seek)
    /\ UNCHANGED <<enginerBrowser, enginePlayerListener, activeTrack,
                   activeVolume, activePlaybackSpeed, flowIsInErrorState,
                   flowPendingSeekPosition, uiQueue, pendingSessions>>

\* onEnded without the reset of the error flag and of the last emitted state.
onEnded_keepsFilters(dur) ==
    /\ enginePlayerListener
    /\ LET e == emitState(STATE_STOPPED, 0, dur, flowLastEmittedState,
                          flowIsInErrorState, activeTrack)
       IN  /\ flowLastEmittedState' = e.last
           /\ Record("ENDED", [dur |-> dur],
                     e.evts \o emitNotice("TRACK_ENDED", dur, dur, activeTrack),
                     IF enginerBrowser THEN <<<<"pause">>, <<"seekTo", 0>>>> ELSE <<>>)
    /\ engineProgressRunnable' = FALSE
    /\ flowPendingSeekPosition' = None
    /\ UNCHANGED <<enginerBrowser, enginePlayerListener, activeTrack, activeVolume,
                   activePlaybackSpeed, flowIsInErrorState, uiQueue, pendingSessions>>

onEnded(dur) ==
    /\ enginePlayerListener
    /\ LET e == emitState(STATE_STOPPED, 0, dur, NoState, FALSE, activeTrack)
       IN  /\ flowLastEmittedState' = e.last
           /\ Record("ENDED", [dur |-> dur],
                     e.evts \o emitNotice("TRACK_ENDED", dur, dur, activeTrack),
                     IF enginerBrowser THEN <<<<"pause">>, <<"seekTo", 0>>>> ELSE <<>>)
    /\ engineProgressRunnable' = FALSE
    /\ flowIsInErrorState' = FALSE
    /\ flowPendingSeekPosition' = None
    /\ UNCHANGED <<enginerBrowser, enginePlayerListener, activeTrack,
                   activeVolume, activePlaybackSpeed, uiQueue, pendingSessions>>

onEngineIdle ==
    /\ enginePlayerListener
    /\ LET e == emitState(STATE_STOPPED, 0, 0, flowLastEmittedState,
                          flowIsInErrorState, activeTrack)
       IN  /\ flowLastEmittedState' = e.last
           /\ Record("ENGINE_IDLE", NoArg, e.evts, <<>>)
    /\ engineProgressRunnable' = FALSE
    /\ UNCHANGED <<enginerBrowser, enginePlayerListener, activeTrack,
                   activeVolume, activePlaybackSpeed, flowIsInErrorState,
                   flowPendingSeekPosition, uiQueue, pendingSessions>>

\* onPositionDiscontinuity that reports the engine's position for every seek.
onPositionDiscontinuity_rawPosition(reason, newPosition, dur) ==
    /\ enginePlayerListener
    /\ IF reason \in {"SEEK", "SEEK_ADJUSTMENT"}
       THEN LET triggeredBy == IF flowPendingSeekPosition # None
                               THEN "USER" ELSE "SYSTEM"
            IN  /\ flowPendingSeekPosition' = None
                /\ engineProgressRunnable' =
                     IF triggeredBy = "USER" THEN TRUE ELSE engineProgressRunnable
                /\ Record("DISCONTINUITY",
                          [reason |-> reason, pos |-> newPosition, dur |-> dur,
                           pending |-> flowPendingSeekPosition],
                          <<SeekEvt(newPosition, dur, triggeredBy, activeTrack)>>, <<>>)
       ELSE /\ UNCHANGED <<flowPendingSeekPosition, engineProgressRunnable>>
            /\ Record("DISCONTINUITY", [reason |-> reason], <<>>, <<>>)
    /\ UNCHANGED <<enginerBrowser, enginePlayerListener, activeTrack,
                   activeVolume, activePlaybackSpeed, flowIsInErrorState,
                   flowLastEmittedState, uiQueue, pendingSessions>>

SeekClass == {"SEEK", "SEEK_ADJUSTMENT"}
DiscontinuityReasons == SeekClass \cup {"AUTO_TRANSITION"}

onPositionDiscontinuity(reason, newPosition, dur) ==
    /\ enginePlayerListener
    /\ IF reason \in SeekClass
       THEN LET triggeredBy == IF flowPendingSeekPosition # None
                               THEN "USER" ELSE "SYSTEM"
                pos == IF flowPendingSeekPosition # None
                       THEN flowPendingSeekPosition[1] ELSE newPosition
            IN  /\ flowPendingSeekPosition' = None
                /\ engineProgressRunnable' =
                     IF triggeredBy = "USER" THEN TRUE ELSE engineProgressRunnable
                /\ Record("DISCONTINUITY",
                          [reason |-> reason, pos |-> newPosition, dur |-> dur,
                           pending |-> flowPendingSeekPosition],
                          <<SeekEvt(pos, dur, triggeredBy, activeTrack)>>, <<>>)
       ELSE /\ UNCHANGED <<flowPendingSeekPosition, engineProgressRunnable>>
            /\ Record("DISCONTINUITY", [reason |-> reason], <<>>, <<>>)
    /\ UNCHANGED <<enginerBrowser, enginePlayerListener, activeTrack,
                   activeVolume, activePlaybackSpeed, flowIsInErrorState,
                   flowLastEmittedState, uiQueue, pendingSessions>>

\* resetInternal that leaves the error flag unset.
resetInternal_flagNotSet(finalState, name, arg, pre, native, store) ==
    /\ Len(uiQueue) + 2 <= limits.queue
    /\ flowIsInErrorState' = FALSE
    /\ flowPendingSeekPosition' = None
    /\ uiQueue' = uiQueue \o <<[kind |-> "teardown"], [kind |-> "release"]>>
    /\ activeTrack' = NoTrack
    /\ engineProgressRunnable' = FALSE
    /\ activePlaybackSpeed' = 100000
    /\ activeVolume' = 100000
    /\ LET e == emitState(finalState, 0, 0, NoState, FALSE, NoTrack)
       IN  /\ flowLastEmittedState' = e.last
           /\ Ghost(name, arg, <<>>, pre \o e.evts, <<>>, native)
           /\ internalStore' = updateFromEvents(store, pre \o e.evts)
    /\ UNCHANGED <<settings, enginerBrowser, enginePlayerListener, pendingSessions>>

\* resetInternal(finalState), with pre the events the caller emitted before it:
\* flags reset, teardown and release blocks posted, track and settings cleared,
\* final state emitted.
resetInternal(finalState, name, arg, pre, native, store) ==
    /\ Len(uiQueue) + 2 <= limits.queue
    /\ flowIsInErrorState' = (finalState = STATE_ERROR)
    /\ flowPendingSeekPosition' = None
    /\ uiQueue' = uiQueue \o <<[kind |-> "teardown"], [kind |-> "release"]>>
    /\ activeTrack' = NoTrack
    /\ engineProgressRunnable' = FALSE
    /\ activePlaybackSpeed' = 100000
    /\ activeVolume' = 100000
    /\ LET e == emitState(finalState, 0, 0, NoState, finalState = STATE_ERROR, NoTrack)
       IN  /\ flowLastEmittedState' = e.last
           /\ Ghost(name, arg, <<>>, pre \o e.evts, <<>>, native)
           /\ internalStore' = updateFromEvents(store, pre \o e.evts)
    /\ UNCHANGED <<settings, enginerBrowser, enginePlayerListener, pendingSessions>>

\* error.message ?: "Unknown error"
MessageOf(error) == IF error = None THEN "Unknown error" ELSE error[1]

\* onPlayerError that goes to the teardown without the PLAYBACK_ERROR event.
onPlayerError_silent(error) ==
    /\ enginePlayerListener
    /\ IF flowIsInErrorState
       THEN /\ Record("PLAYER_ERROR", [wasInError |-> TRUE], <<>>, <<>>)
            /\ UNCHANGED ctrlVars
       ELSE resetInternal(STATE_ERROR, "PLAYER_ERROR",
                          [wasInError |-> FALSE, error |-> error],
                          <<>>, <<>>, internalStore)

\* onPlayerError(error), with error the message of the PlaybackException or null.
onPlayerError(error) ==
    /\ enginePlayerListener
    /\ IF flowIsInErrorState
       THEN /\ Record("PLAYER_ERROR", [wasInError |-> TRUE], <<>>, <<>>)
            /\ UNCHANGED ctrlVars
       ELSE resetInternal(STATE_ERROR, "PLAYER_ERROR",
                          [wasInError |-> FALSE, error |-> error],
                          emitError(MessageOf(error), 500, activeTrack), <<>>,
                          internalStore)

\* The progress runnable fires and re-posts itself.
progressTimer(r) ==
    /\ engineProgressRunnable
    /\ progressRun = "idle"
    /\ Record("PROGRESS", NoArg, emitNotice("PROGRESS", Position(r), Duration(r), activeTrack), <<>>)
    /\ UNCHANGED ctrlVars

\* The same runnable taken in two steps, for the commands that reach
\* stopProgressTimer outside their posted block: run() emits PROGRESS and reads
\* engineProgressHandler, which the controller still holds ...
progressFire(r) ==
    /\ engineProgressRunnable
    /\ progressRun = "idle"
    /\ progressRun' = "running"
    /\ Trace("PROGRESS", [step |-> "run"], <<>>,
             emitNotice("PROGRESS", Position(r), Duration(r), activeTrack), <<>>, <<>>)
    /\ internalStore' = updateFromEvents(internalStore, emitted')
    /\ UNCHANGED <<ctrlVars>>

\* ... and then calls postDelayed(this) on the handler it read. When stopProgressTimer
\* ran in between, removeCallbacks found nothing queued and the fields are null: the
\* runnable is posted on a handler the controller no longer holds, unless run() read
\* the field after it was cleared.
progressRepost ==
    /\ progressRun = "running"
    /\ \/ progressRun' = "idle"
       \/ ~engineProgressRunnable /\ progressRun' = "stray"
    /\ Trace("PROGRESS", [step |-> "postDelayed"], <<>>, <<>>, <<>>, <<>>)
    /\ UNCHANGED <<internalStore, ctrlVars>>

\* A runnable posted after its timer was stopped fires: it emits PROGRESS and posts
\* itself again when engineProgressHandler is set (a later timer's handler).
progressStray(r) ==
    /\ progressRun = "stray"
    /\ progressRun' = IF engineProgressRunnable THEN "stray" ELSE "idle"
    /\ Trace("PROGRESS", [step |-> "stray"], <<>>,
             emitNotice("PROGRESS", Position(r), Duration(r), activeTrack), <<>>, <<>>)
    /\ internalStore' = updateFromEvents(internalStore, emitted')
    /\ UNCHANGED <<ctrlVars>>

\* --------------------------------------------------- session set-up
\* prepareForNewPlayback, activeTrack = track, the startTimeMs marker and the
\* posted play block: the part of AudioProController.play after the session is there.
playPrepared(c, pend, name, arg, native) ==
    /\ Len(uiQueue) + 2 <= limits.queue
    /\ uiQueue' = uiQueue \o
         <<[kind |-> "prepPause"],
           [kind |-> "play", autoPlay |-> c.autoPlay, speed |-> c.speed,
            volume |-> c.volume]>>
    /\ engineProgressRunnable' = FALSE
    /\ flowIsInErrorState' = FALSE
    /\ flowLastEmittedState' = NoState
    /\ activeTrack' = c.track
    /\ flowPendingSeekPosition' =
         IF c.startTimeMs # None /\ c.autoPlay THEN c.startTimeMs ELSE None
    /\ pendingSessions' = pend
    /\ Ghost(name, arg, <<>>, <<>>, <<>>, native)

RemoveAt(s, i) == [j \in 1..(Len(s) - 1) |-> IF j < i THEN s[j] ELSE s[j + 1]]

\* A suspended internalPrepareSession resumes: the browser is set, the listener
\* attached, and a waiting play() goes on.
sessionConnected(i) ==
    /\ i \in 1..Len(pendingSessions)
    /\ enginerBrowser' = TRUE
    /\ enginePlayerListener' = TRUE
    /\ LET c == pendingSessions[i]
       IN  IF c.kind = "play"
           THEN playPrepared(c, RemoveAt(pendingSessions, i), "connected",
                             [kind |-> "play", autoPlay |-> c.autoPlay], <<>>)
           ELSE /\ pendingSessions' = RemoveAt(pendingSessions, i)
                /\ Ghost("connected", [kind |-> "ensure"], <<>>, <<>>, <<>>, <<>>)
                /\ UNCHANGED <<engineProgressRunnable, activeTrack, flowIsInErrorState,
                               flowLastEmittedState, flowPendingSeekPosition, uiQueue>>
    /\ UNCHANGED <<settings, internalStore, activeVolume, activePlaybackSpeed>>

\* ------------------------------------------- blocks run on the main looper
HeadKind(k) == uiQueue # <<>> /\ Head(uiQueue).kind = k

\* prepareForNewPlayback's block: enginerBrowser?.pause()
uiPrepPause ==
    /\ HeadKind("prepPause")
    /\ uiQueue' = Tail(uiQueue)
    /\ Record("ui_prepPause", NoArg, <<>>,
              IF enginerBrowser THEN <<<<"pause">>>> ELSE <<>>)
    /\ UNCHANGED <<enginerBrowser, enginePlayerListener,
                   engineProgressRunnable, activeTrack, activeVolume,
                   activePlaybackSpeed, flowIsInErrorState, flowLastEmittedState,
                   flowPendingSeekPosition, pendingSessions>>

\* play()'s block: LOADING, then the media item is handed to the engine.
uiPlay ==
    /\ HeadKind("play")
    /\ uiQueue' = Tail(uiQueue)
    /\ LET b == Head(uiQueue)
           e1 == emitState(STATE_LOADING, 0, 0, flowLastEmittedState,
                           flowIsInErrorState, activeTrack)
           e2 == IF enginerBrowser /\ ~b.autoPlay
                 THEN emitState(STATE_PAUSED, 0, 0, e1.last, flowIsInErrorState,
                                activeTrack)
                 ELSE [last |-> e1.last, evts |-> <<>>]
           calls == IF ~enginerBrowser THEN <<>>
                    ELSE <<<<"setMediaItem">>, <<"prepare">>,
                           <<"setPlaybackSpeed", b.speed>>, <<"setVolume", b.volume>>>>
                         \o (IF b.autoPlay THEN <<<<"play">>>> ELSE <<>>)
       IN  /\ flowLastEmittedState' = e2.last
           /\ Record("ui_play", [autoPlay |-> b.autoPlay], e1.evts \o e2.evts, calls)
    /\ UNCHANGED <<enginerBrowser, enginePlayerListener,
                   engineProgressRunnable, activeTrack, activeVolume,
                   activePlaybackSpeed, flowIsInErrorState, flowPendingSeekPosition,
                   pendingSessions>>

\* pause()'s and resume()'s blocks.
uiPauseResume(kind, name, state, call, r) ==
    /\ HeadKind(kind)
    /\ uiQueue' = Tail(uiQueue)
    /\ LET e == IF enginerBrowser
                THEN emitState(state, r.pos, PositiveOrZero(r.dur), flowLastEmittedState,
                               flowIsInErrorState, activeTrack)
                ELSE [last |-> flowLastEmittedState, evts |-> <<>>]
       IN  /\ flowLastEmittedState' = e.last
           /\ Record(name, NoArg, e.evts, IF enginerBrowser THEN <<<<call>>>> ELSE <<>>)
    /\ UNCHANGED <<enginerBrowser, enginePlayerListener,
                   engineProgressRunnable, activeTrack, activeVolume,
                   activePlaybackSpeed, flowIsInErrorState, flowPendingSeekPosition,
                   pendingSessions>>

uiPause(r) == uiPauseResume("pause", "ui_pause", STATE_PAUSED, "pause", r)

uiResume(r) == uiPauseResume("resume", "ui_resume", STATE_PLAYING, "play", r)

\* stop()'s block that detaches the listener as a teardown does.
uiStop_detaches(dur) ==
    /\ HeadKind("stop")
    /\ uiQueue' = Tail(uiQueue)
    /\ enginePlayerListener' = FALSE
    /\ LET e == IF enginerBrowser
                THEN emitState(STATE_STOPPED, 0, PositiveOrZero(dur),
                               flowLastEmittedState, flowIsInErrorState, activeTrack)
                ELSE [last |-> flowLastEmittedState, evts |-> <<>>]
       IN  /\ flowLastEmittedState' = e.last
           /\ Record("ui_stop", NoArg, e.evts,
                     IF enginerBrowser THEN <<<<"stop">>, <<"seekTo", 0>>>> ELSE <<>>)
    /\ UNCHANGED <<enginerBrowser, engineProgressRunnable, activeTrack, activeVolume,
                   activePlaybackSpeed, flowIsInErrorState, flowPendingSeekPosition,
                   pendingSessions>>

\* stop()'s block: engine stop and seek to 0; STOPPED at position 0.
uiStop(dur) ==
    /\ HeadKind("stop")
    /\ uiQueue' = Tail(uiQueue)
    /\ LET e == IF enginerBrowser
                THEN emitState(STATE_STOPPED, 0, PositiveOrZero(dur),
                               flowLastEmittedState, flowIsInErrorState, activeTrack)
                ELSE [last |-> flowLastEmittedState, evts |-> <<>>]
       IN  /\ flowLastEmittedState' = e.last
           /\ Record("ui_stop", NoArg, e.evts,
                     IF enginerBrowser THEN <<<<"stop">>, <<"seekTo", 0>>>> ELSE <<>>)
    /\ UNCHANGED <<enginerBrowser, enginePlayerListener,
                   engineProgressRunnable, activeTrack, activeVolume,
                   activePlaybackSpeed, flowIsInErrorState, flowPendingSeekPosition,
                   pendingSessions>>

\* resetInternal's first block: engine stop, detachPlayerListener, engine release.
uiTeardown ==
    /\ HeadKind("teardown")
    /\ uiQueue' = Tail(uiQueue)
    /\ enginePlayerListener' = FALSE
    /\ Record("ui_teardown", NoArg, <<>>,
              IF enginerBrowser THEN <<<<"stop">>, <<"release">>>> ELSE <<>>)
    /\ UNCHANGED <<enginerBrowser, engineProgressRunnable, activeTrack,
                   activeVolume, activePlaybackSpeed, flowIsInErrorState,
                   flowLastEmittedState, flowPendingSeekPosition, pendingSessions>>

\* release()'s block: the future is released and enginerBrowser set to null.
uiRelease ==
    /\ HeadKind("release")
    /\ uiQueue' = Tail(uiQueue)
    /\ enginerBrowser' = FALSE
    /\ Record("ui_release", NoArg, <<>>, <<>>)
    /\ UNCHANGED <<enginePlayerListener, engineProgressRunnable,
                   activeTrack, activeVolume, activePlaybackSpeed, flowIsInErrorState,
                   flowLastEmittedState, flowPendingSeekPosition, pendingSessions>>

\* seekTo's target: clamped to [0, duration] as the engine reports it.
validPosition(position, dur) ==
    IF position < 0 THEN 0 ELSE IF position > dur THEN dur ELSE position

\* seekTo()'s block; engineDur is the engine's duration, read when a session is there.
uiSeekTo(engineDur) ==
    /\ HeadKind("seekTo")
    /\ uiQueue' = Tail(uiQueue)
    /\ LET dur == IF enginerBrowser THEN engineDur ELSE 0
           valid == validPosition(Head(uiQueue).position, dur)
       IN  /\ flowPendingSeekPosition' = Some(valid)
           /\ Record("ui_seekTo",
                     [position |-> Head(uiQueue).position, dur |-> dur],
                     <<>>, IF enginerBrowser THEN <<<<"seekTo", valid>>>> ELSE <<>>)
    /\ engineProgressRunnable' = FALSE
    /\ UNCHANGED <<enginerBrowser, enginePlayerListener, activeTrack,
                   activeVolume, activePlaybackSpeed, flowIsInErrorState,
                   flowLastEmittedState, pendingSessions>>

\* seekForward()'s and seekBack()'s block: the target is computed from what the
\* engine reports and handed to AudioProController.seekTo, which posts its own block.
uiSeekSkip(r) ==
    /\ uiQueue # <<>>
    /\ Head(uiQueue).kind \in {"seekForward", "seekBack"}
    /\ SessionRoom
    /\ LET b == Head(uiQueue)
           current == Position(r)
           dur == Duration(r)
           newPos == IF b.kind = "seekForward"
                     THEN (IF current + b.amount > dur THEN dur ELSE current + b.amount)
                     ELSE (IF current - b.amount < 0 THEN 0 ELSE current - b.amount)
       IN  /\ uiQueue' = Append(Tail(uiQueue), [kind |-> "seekTo", position |-> newPos])
           /\ Record(IF b.kind = "seekForward" THEN "ui_seekForward" ELSE "ui_seekBack",
                     [amount |-> b.amount, newPos |-> newPos], <<>>, <<>>)
    /\ pendingSessions' = ensureSession(pendingSessions)
    /\ UNCHANGED <<enginerBrowser, enginePlayerListener, engineProgressRunnable,
                   activeTrack, activeVolume, activePlaybackSpeed, flowIsInErrorState,
                   flowLastEmittedState, flowPendingSeekPosition>>

\* setPlaybackSpeed()'s block: engine call and PLAYBACK_SPEED_CHANGED.
uiSetPlaybackSpeed ==
    /\ HeadKind("setPlaybackSpeed")
    /\ uiQueue' = Tail(uiQueue)
    /\ LET speed == Head(uiQueue).speed
       IN  Record("ui_setPlaybackSpeed", [speed |-> speed],
                  <<[type |-> "PLAYBACK_SPEED_CHANGED", speed |-> speed,
                     track |-> activeTrack]>>,
                  IF enginerBrowser THEN <<<<"setPlaybackSpeed", speed>>>> ELSE <<>>)
    /\ UNCHANGED <<enginerBrowser, enginePlayerListener,
                   engineProgressRunnable, activeTrack, activeVolume,
                   activePlaybackSpeed, flowIsInErrorState, flowLastEmittedState,
                   flowPendingSeekPosition, pendingSessions>>

uiSetVolume ==
    /\ HeadKind("setVolume")
    /\ uiQueue' = Tail(uiQueue)
    /\ Record("ui_setVolume", [volume |-> Head(uiQueue).volume], <<>>,
              IF enginerBrowser THEN <<<<"setVolume", Head(uiQueue).volume>>>> ELSE <<>>)
    /\ UNCHANGED <<enginerBrowser, enginePlayerListener,
                   engineProgressRunnable, activeTrack, activeVolume,
                   activePlaybackSpeed, flowIsInErrorState, flowLastEmittedState,
                   flowPendingSeekPosition, pendingSessions>>

\* ------------------------------------------------------------ the facade
\* Each command is the JS code of AudioPro together with the synchronous part of
\* the AudioProController method NativeAudioPro hands it to.

guardTrackPlaying == internalStore.trackPlaying # NoTrack

isValidPlayerStateForOperation ==
    internalStore.playerState \notin {STATE_IDLE, STATE_ERROR}

GuardError == <<ErrorEvt(-1, NoTrack)>>

\* A command the facade turns down: nothing but the JS-side events.
Rejected(name, arg, jsEvts) ==
    /\ Ghost(name, arg, jsEvts, <<>>, <<>>, <<>>)
    /\ UNCHANGED <<internalStore, ctrlVars>>

\* play() once the track has passed validation: store written, options merged,
\* NativeAudioPro.play called.
playValid(track, autoPlay, startTimeMs, options, arg) ==
    LET nativeOptions == Spread(internalStore.configureOptions, options)
        c == [kind |-> "play", track |-> track, autoPlay |-> autoPlay,
              startTimeMs |-> IF autoPlay THEN startTimeMs ELSE None,
              speed |-> internalStore.playbackSpeed,
              volume |-> normalizeVolume(internalStore.volume)]
    IN  /\ internalStore' =
             [internalStore EXCEPT !.trackPlaying = track, !.error = None]
        /\ activePlaybackSpeed' = c.speed
        /\ activeVolume' = c.volume
        /\ settings' = extractPlaybackOptions(nativeOptions)
        /\ IF enginerBrowser
           THEN playPrepared(c, pendingSessions, "play", arg, <<"play">>)
           ELSE /\ Len(pendingSessions) < limits.pending
                /\ pendingSessions' = Append(pendingSessions, c)
                /\ Ghost("play", arg, <<>>, <<>>, <<>>, <<"play">>)
                /\ UNCHANGED <<engineProgressRunnable, activeTrack,
                               flowIsInErrorState, flowLastEmittedState,
                               flowPendingSeekPosition, uiQueue>>
        /\ UNCHANGED <<enginerBrowser, enginePlayerListener>>

\* What is recorded of an accepted play(): its options as given.
PlayArg(options, autoPlay, startTimeMs) ==
    [valid |-> TRUE, options |-> options, autoPlay |-> autoPlay,
     startTimeMs |-> startTimeMs]

\* play() that records the track in the store before validating it.
play_storesBeforeValidating(track, autoPlay, startTimeMs, options) ==
    IF ~validateTrack(track)
    THEN /\ Ghost("play", [valid |-> FALSE, options |-> options], GuardError, <<>>, <<>>,
               <<>>)
         /\ internalStore' = [internalStore EXCEPT !.trackPlaying = track]
         /\ UNCHANGED ctrlVars
    ELSE playValid(track, autoPlay, startTimeMs, options,
                   PlayArg(options, autoPlay, startTimeMs))

play(track, autoPlay, startTimeMs, options) ==
    IF ~validateTrack(track)
    THEN Rejected("play", [valid |-> FALSE, options |-> options], GuardError)
    ELSE playValid(track, autoPlay, startTimeMs, options,
                   PlayArg(options, autoPlay, startTimeMs))

\* configure() that stores the merged options as they are.
configure_noExclusivity(options) ==
    /\ internalStore' =
         [internalStore EXCEPT !.configureOptions = Spread(DEFAULT_CONFIG, options)]
    /\ Ghost("configure", [options |-> options], <<>>, <<>>, <<>>, <<>>)
    /\ UNCHANGED ctrlVars

\* configure(): defaults merged in, the lock-screen controls made exclusive.
configure(options) ==
    LET merged == Spread(DEFAULT_CONFIG, options)
        config == IF merged.showNextPrevControls = Some(TRUE)
                     /\ merged.showSkipControls = Some(TRUE)
                  THEN [merged EXCEPT !.showSkipControls = Some(FALSE)]
                  ELSE merged
    IN  /\ internalStore' = [internalStore EXCEPT !.configureOptions = config]
        /\ Ghost("configure", [options |-> options], <<>>, <<>>, <<>>, <<>>)
        /\ UNCHANGED ctrlVars

setProgressInterval(ms) ==
    LET clampedMs == IF ms < 100 THEN 100 ELSE IF ms > 10000 THEN 10000 ELSE ms
    IN  /\ internalStore' =
             [internalStore EXCEPT !.configureOptions.progressIntervalMs = Some(clampedMs)]
        /\ Ghost("setProgressInterval", [ms |-> ms], <<>>, <<>>, <<>>, <<>>)
        /\ UNCHANGED ctrlVars

\* pause() and resume(): guarded by the store's track and state.
pauseResume(name, clearError) ==
    IF ~guardTrackPlaying THEN Rejected(name, [sent |-> FALSE], GuardError)
    ELSE IF ~isValidPlayerStateForOperation THEN Rejected(name, [sent |-> FALSE], <<>>)
    ELSE /\ Len(uiQueue) < limits.queue
         /\ SessionRoom
         /\ internalStore' =
              IF clearError THEN [internalStore EXCEPT !.error = None] ELSE internalStore
         /\ pendingSessions' = ensureSession(pendingSessions)
         /\ uiQueue' = Append(uiQueue, [kind |-> name])
         /\ Ghost(name, [sent |-> TRUE], <<>>, <<>>, <<>>, <<name>>)
         /\ UNCHANGED <<settings, enginerBrowser, enginePlayerListener, engineProgressRunnable,
                        activeTrack, activeVolume, activePlaybackSpeed,
                        flowIsInErrorState, flowLastEmittedState,
                        flowPendingSeekPosition>>

pause == pauseResume("pause", FALSE)

resume == pauseResume("resume", TRUE)

\* stop() that clears the playing track of the store.
stop_clearsTrack ==
    /\ Len(uiQueue) < limits.queue
    /\ SessionRoom
    /\ internalStore' = [internalStore EXCEPT !.error = None, !.trackPlaying = NoTrack]
    /\ flowIsInErrorState' = FALSE
    /\ flowLastEmittedState' = NoState
    /\ pendingSessions' = ensureSession(pendingSessions)
    /\ uiQueue' = Append(uiQueue, [kind |-> "stop"])
    /\ engineProgressRunnable' = FALSE
    /\ flowPendingSeekPosition' = None
    /\ Ghost("stop", NoArg, <<>>, <<>>, <<>>, <<"stop">>)
    /\ UNCHANGED <<settings, enginerBrowser, enginePlayerListener, activeTrack,
                   activeVolume, activePlaybackSpeed>>

stop ==
    /\ Len(uiQueue) < limits.queue
    /\ SessionRoom
    /\ internalStore' = [internalStore EXCEPT !.error = None]
    /\ flowIsInErrorState' = FALSE
    /\ flowLastEmittedState' = NoState
    /\ pendingSessions' = ensureSession(pendingSessions)
    /\ uiQueue' = Append(uiQueue, [kind |-> "stop"])
    /\ engineProgressRunnable' = FALSE
    /\ flowPendingSeekPosition' = None
    /\ Ghost("stop", NoArg, <<>>, <<>>, <<>>, <<"stop">>)
    /\ UNCHANGED <<settings, enginerBrowser, enginePlayerListener, activeTrack, activeVolume,
                   activePlaybackSpeed>>

clear ==
    resetInternal(STATE_IDLE, "clear", NoArg, <<>>, <<"clear">>,
                  [internalStore EXCEPT !.error = None, !.trackPlaying = NoTrack,
                                        !.volume = normalizeVolume(100000)])

seekTo(positionMs) ==
    IF ~guardTrackPlaying
    THEN Rejected("seekTo", [position |-> positionMs, sent |-> FALSE], GuardError)
    ELSE IF ~isValidPlayerStateForOperation \/ positionMs < 0
    THEN Rejected("seekTo", [position |-> positionMs, sent |-> FALSE], <<>>)
    ELSE /\ Len(uiQueue) < limits.queue
         /\ SessionRoom
         /\ pendingSessions' = ensureSession(pendingSessions)
         /\ uiQueue' = Append(uiQueue, [kind |-> "seekTo", position |-> positionMs])
         /\ Ghost("seekTo", [position |-> positionMs, sent |-> TRUE], <<>>, <<>>, <<>>,
                  <<"seekTo">>)
         /\ UNCHANGED <<settings, internalStore, enginerBrowser, enginePlayerListener,
                        engineProgressRunnable, activeTrack, activeVolume,
                        activePlaybackSpeed, flowIsInErrorState, flowLastEmittedState,
                        flowPendingSeekPosition>>

\* seekForward() and seekBack() that forward any amount.
seekSkip_anyAmount(name, amountMs) ==
    IF ~guardTrackPlaying
    THEN Rejected(name, [amount |-> amountMs, sent |-> FALSE], GuardError)
    ELSE IF ~isValidPlayerStateForOperation
    THEN Rejected(name, [amount |-> amountMs, sent |-> FALSE], <<>>)
    ELSE /\ Len(uiQueue) < limits.queue
         /\ uiQueue' = Append(uiQueue, [kind |-> name, amount |-> amountMs])
         /\ Ghost(name, [amount |-> amountMs, sent |-> TRUE], <<>>, <<>>, <<>>, <<name>>)
         /\ UNCHANGED <<settings, internalStore, enginerBrowser, enginePlayerListener,
                        engineProgressRunnable, activeTrack, activeVolume,
                        activePlaybackSpeed, flowIsInErrorState, flowLastEmittedState,
                        flowPendingSeekPosition, pendingSessions>>

\* seekForward() and seekBack(): guarded like seekTo, the amount must be positive.
seekSkip(name, amountMs) ==
    IF ~guardTrackPlaying
    THEN Rejected(name, [amount |-> amountMs, sent |-> FALSE], GuardError)
    ELSE IF ~isValidPlayerStateForOperation \/ amountMs <= 0
    THEN Rejected(name, [amount |-> amountMs, sent |-> FALSE], <<>>)
    ELSE /\ Len(uiQueue) < limits.queue
         /\ uiQueue' = Append(uiQueue, [kind |-> name, amount |-> amountMs])
         /\ Ghost(name, [amount |-> amountMs, sent |-> TRUE], <<>>, <<>>, <<>>, <<name>>)
         /\ UNCHANGED <<settings, internalStore, enginerBrowser, enginePlayerListener,
                        engineProgressRunnable, activeTrack, activeVolume,
                        activePlaybackSpeed, flowIsInErrorState, flowLastEmittedState,
                        flowPendingSeekPosition, pendingSessions>>

seekForward(amountMs) == seekSkip("seekForward", amountMs)

seekBack(amountMs) == seekSkip("seekBack", amountMs)

setPlaybackSpeed(speed) ==
    LET validatedSpeed == Clamp(25000, 200000, speed)
        sent == guardTrackPlaying /\ isValidPlayerStateForOperation
    IN  /\ internalStore' = [internalStore EXCEPT !.playbackSpeed = validatedSpeed]
        /\ IF sent
           THEN /\ Len(uiQueue) < limits.queue
                /\ SessionRoom
                /\ pendingSessions' = ensureSession(pendingSessions)
                /\ activePlaybackSpeed' = validatedSpeed
                /\ uiQueue' = Append(uiQueue, [kind |-> "setPlaybackSpeed",
                                               speed |-> validatedSpeed])
           ELSE UNCHANGED <<pendingSessions, activePlaybackSpeed, uiQueue>>
        /\ Ghost("setPlaybackSpeed", [speed |-> speed, sent |-> sent], <<>>, <<>>, <<>>,
                 IF sent THEN <<"setPlaybackSpeed">> ELSE <<>>)
        /\ UNCHANGED <<settings, enginerBrowser, enginePlayerListener, engineProgressRunnable,
                       activeTrack, activeVolume, flowIsInErrorState,
                       flowLastEmittedState, flowPendingSeekPosition>>

setVolume(volume) ==
    LET normalizedVolume == normalizeVolume(Clamp(0, 100000, volume))
        sent == guardTrackPlaying /\ isValidPlayerStateForOperation
    IN  /\ internalStore' = [internalStore EXCEPT !.volume = normalizedVolume]
        /\ IF sent
           THEN /\ Len(uiQueue) < limits.queue
                /\ SessionRoom
                /\ pendingSessions' = ensureSession(pendingSessions)
                /\ activeVolume' = normalizedVolume
                /\ uiQueue' = Append(uiQueue, [kind |-> "setVolume",
                                               volume |-> normalizedVolume])
           ELSE UNCHANGED <<pendingSessions, activeVolume, uiQueue>>
        /\ Ghost("setVolume", [volume |-> volume, sent |-> sent], <<>>, <<>>, <<>>,
                 IF sent THEN <<"setVolume">> ELSE <<>>)
        /\ UNCHANGED <<settings, enginerBrowser, enginePlayerListener, engineProgressRunnable,
                       activeTrack, activePlaybackSpeed, flowIsInErrorState,
                       flowLastEmittedState, flowPendingSeekPosition>>

\* ------------------------------------------------- the ambient commands
\* The facade's ambient commands: each hands its arguments to NativeAudioPro; the
\* ambient player behind it is a separate native player.
AmbientErrorEvt == [type |-> "AMBIENT_ERROR", emitter |-> "AudioProAmbientEvent"]

\* !v for a string or a missing value
Falsy(v) == v = Undefined \/ (IsString(v) /\ v.s = <<>>)

Ambient(name, arg, ambientEvts, native) ==
    /\ Ghost(name, arg, ambientEvts, <<>>, <<>>, native)
    /\ UNCHANGED <<internalStore, ctrlVars>>

\* ambientPlay that reports a bad url on the main player's emitter.
ambientPlay_mainEmitter(originalUrl, loop) ==
    IF Falsy(originalUrl)
    THEN Ambient("ambientPlay", [url |-> originalUrl, loop |-> loop], GuardError, <<>>)
    ELSE Ambient("ambientPlay", [url |-> originalUrl, loop |-> loop], <<>>,
                 <<"ambientPlay">>)

ambientPlay(originalUrl, loop) ==
    IF Falsy(originalUrl)
    THEN Ambient("ambientPlay", [url |-> originalUrl, loop |-> loop],
                 <<AmbientErrorEvt>>, <<>>)
    ELSE Ambient("ambientPlay", [url |-> originalUrl, loop |-> loop], <<>>,
                 <<"ambientPlay">>)

ambientStop == Ambient("ambientStop", NoArg, <<>>, <<"ambientStop">>)

ambientSetVolume(volume) ==
    LET normalizedVolume == normalizeVolume(Clamp(0, 100000, volume))
    IN  Ambient("ambientSetVolume", [volume |-> volume, sent |-> normalizedVolume],
                <<>>, <<"ambientSetVolume">>)

ambientPause == Ambient("ambientPause", NoArg, <<>>, <<"ambientPause">>)

ambientResume == Ambient("ambientResume", NoArg, <<>>, <<"ambientResume">>)

ambientSeekTo(positionMs) ==
    Ambient("ambientSeekTo", [position |-> positionMs], <<>>, <<"ambientSeekTo">>)

\* --------------------------------------------------- calls of the helpers
\* A call of a pure helper of utils.ts: its argument and result are recorded, the
\* player is left as it is.
Called(name, arg) ==
    /\ lastOp' = Op(name, arg)
    /\ UNCHANGED <<internalStore, ctrlVars, emitted, engineCalls, nativeCalls,
                   lastStateEvt, progressRun, unsent, seeksInFlight, limits>>

callNormalizeVolume(volume) ==
    Called("normalizeVolume", [volume |-> volume, result |-> normalizeVolume(volume)])

callValidateTrack(track) ==
    Called("validateTrack", [track |-> track, result |-> validateTrack(track)])

\* ------------------------------------------------------------ specification
\* Facade commands about playback; starts are the startTimeMs options tried and
\* options the other options given to play().
PlaybackWith(starts, options) ==
    \/ \E t \in PlayTracks, a \in BOOLEAN, st \in starts, o \in options :
          play(t, a, st, o)
    \/ pause
    \/ resume
    \/ stop
    \/ clear

Playback(starts) == PlaybackWith(starts, {NoOptions})

Seeking == \E p \in SeekTargets : seekTo(p)

SettingsOf(speeds, volumes) ==
    \/ \E s \in speeds : setPlaybackSpeed(s)
    \/ \E v \in volumes : setVolume(v)

Settings == SettingsOf(Speeds, Volumes)

\* Engine callbacks and the progress runnable; readings are what the engine may
\* report when asked.
EngineSignal(readings) ==
    \/ \E b \in BOOLEAN, r \in readings : onIsPlayingChanged(b, r)
    \/ \E b \in BOOLEAN, r \in readings : onBuffering(enginerBrowser /\ b, r)
    \/ \E b \in BOOLEAN, r \in readings : onReady(enginerBrowser /\ b, r)
    \/ \E r \in readings : onEnded(Duration(r))
    \/ onEngineIdle
    \/ \E reason \in DiscontinuityReasons, r \in readings :
          onPositionDiscontinuity(reason, r.pos, Duration(r))
    \/ \E m \in ErrorMessages : onPlayerError(m)
    \/ \E r \in readings : progressTimer(r)

\* The main looper runs the next posted block, or a session build completes.
MainLooper(readings) ==
    \/ uiPrepPause
    \/ uiPlay
    \/ \E r \in readings : uiPause(r)
    \/ \E r \in readings : uiResume(r)
    \/ \E r \in readings : uiStop(r.dur)
    \/ uiTeardown
    \/ uiRelease
    \/ \E i \in 1..limits.pending : sessionConnected(i)

SeekLooper(readings) == \E r \in readings : uiSeekTo(r.dur)

SettingsLooper == uiSetPlaybackSpeed \/ uiSetVolume

Configuring ==
    \/ \E o \in ConfigureInputs : configure(o)
    \/ \E ms \in Intervals : setProgressInterval(ms)

Skipping ==
    \/ \E a \in SkipAmounts : seekForward(a)
    \/ \E a \in SkipAmounts : seekBack(a)

SkipLooper(readings) == \E r \in readings : uiSeekSkip(r)

\* Playback and seeking, with every reading of the engine.
Next ==
    \/ Playback(StartTimes)
    \/ Seeking
    \/ EngineSignal(Readings)
    \/ MainLooper(Readings)
    \/ SeekLooper(Readings)

Spec == Init /\ [][Next]_vars

\* Playback and the volume and speed settings, with an engine that knows the
\* duration.
NextSettings ==
    \/ Playback({None})
    \/ Settings
    \/ EngineSignal(KnownReadings)
    \/ MainLooper(KnownReadings)
    \/ SettingsLooper

SpecSettings == Init /\ [][NextSettings]_vars

\* Playback commands racing the session set-up: two session builds may be under
\* way at once.
NextRace ==
    \/ Playback({None})
    \/ EngineSignal(KnownReadings)
    \/ MainLooper(KnownReadings)

SpecRace == InitRace /\ [][NextRace]_vars

\* Playback, seeking and skipping, with an engine that knows the duration.
NextSeek ==
    \/ Playback({None})
    \/ Seeking
    \/ Skipping
    \/ EngineSignal(KnownReadings)
    \/ MainLooper(KnownReadings)
    \/ SeekLooper(KnownReadings)
    \/ SkipLooper(KnownReadings)

SpecSeek == Init /\ [][NextSeek]_vars

\* Configuration: configure(), setProgressInterval() and play() with options of
\* its own, and the blocks they post.
NextConfig ==
    \/ Configuring
    \/ PlaybackWith({None}, PlayInputs)
    \/ MainLooper(KnownReadings)

SpecConfig == Init /\ [][NextConfig]_vars

\* The volume and speed settings with arguments in and out of range, before and
\* after a track is started.
NextRange ==
    \/ SettingsOf(AnySpeeds, AnyVolumes)
    \/ SettingsLooper
    \/ play(BaseTrack, TRUE, None, NoOptions)
    \/ sessionConnected(1)
    \/ uiPrepPause
    \/ uiPlay

SpecRange == Init /\ [][NextRange]_vars

\* Volume and speed set with and without a track, around clear() and play(), with
\* two speeds and two volumes.
HandOverSpeeds == {50000, 300000}
HandOverVolumes == {50000, -100000}

NextHandOver ==
    \/ SettingsOf(HandOverSpeeds, HandOverVolumes)
    \/ SettingsLooper
    \/ play(BaseTrack, TRUE, None, NoOptions)
    \/ clear
    \/ \E i \in 1..limits.pending : sessionConnected(i)
    \/ uiPrepPause
    \/ uiPlay
    \/ uiTeardown
    \/ uiRelease

SpecHandOver == InitHandOver /\ [][NextHandOver]_vars

\* Seeks and their discontinuities: every seek-class discontinuity answers the
\* oldest engine seek in flight, or is the engine's own when none is.
SeekRoom == seeksInFlight < limits.seeks

NextAttribution ==
    \/ \E a \in BOOLEAN, st \in StartTimes : play(BaseTrack, a, st, NoOptions)
    \/ \E i \in 1..limits.pending : sessionConnected(i)
    \/ uiPrepPause
    \/ uiPlay
    \/ Seeking
    \/ SeekRoom /\ SeekLooper(KnownReadings)
    \/ SeekRoom /\ \E b \in BOOLEAN, r \in KnownReadings : onReady(enginerBrowser /\ b, r)
    \/ \E b \in BOOLEAN, r \in KnownReadings : onIsPlayingChanged(b, r)
    \/ \E reason \in SeekClass, r \in KnownReadings :
          onPositionDiscontinuity(reason, r.pos, Duration(r))

SpecAttribution == InitSeeks /\ [][NextAttribution]_vars

\* The helpers called on their own, and play() with the tracks validateTrack is
\* tried on.
NextHelpers ==
    \/ \E v \in VolumeInputs : callNormalizeVolume(v)
    \/ \E t \in TrackInputs : callValidateTrack(t)
    \/ \E t \in TrackInputs : play(t, TRUE, None, NoOptions)

SpecHelpers == Init /\ [][NextHelpers]_vars

AmbientCommands ==
    \/ \E u \in AmbientUrls, l \in BOOLEAN : ambientPlay(u, l)
    \/ ambientStop
    \/ \E v \in Volumes : ambientSetVolume(v)
    \/ ambientPause
    \/ ambientResume
    \/ \E p \in SeekTargets : ambientSeekTo(p)

\* The ambient commands next to the playback commands of the main player.
NextAmbient ==
    \/ AmbientCommands
    \/ Playback({None})
    \/ MainLooper(KnownReadings)

SpecAmbient == Init /\ [][NextAmbient]_vars

\* Commands racing a teardown: the blocks of clear() or of an engine error may still
\* be waiting when the next command arrives.
NextTeardown ==
    \/ \E a \in BOOLEAN, st \in StartTimes : play(BaseTrack, a, st, NoOptions)
    \/ stop
    \/ clear
    \/ Seeking
    \/ uiPrepPause
    \/ uiPlay
    \/ \E r \in KnownReadings : uiStop(r.dur)
    \/ uiTeardown
    \/ uiRelease
    \/ \E i \in 1..limits.pending : sessionConnected(i)
    \/ SeekLooper(KnownReadings)
    \/ \E b \in BOOLEAN, r \in KnownReadings : onReady(enginerBrowser /\ b, r)
    \/ \E reason \in SeekClass, r \in KnownReadings :
          onPositionDiscontinuity(reason, r.pos, Duration(r))
    \/ \E m \in ErrorMessages : onPlayerError(m)

SpecTeardown == InitTeardown /\ [][NextTeardown]_vars

\* Engine errors arriving while a track plays with a volume and a speed of its
\* own, a seek pending and the progress timer running.
NextError ==
    \/ \E st \in StartTimes : play(BaseTrack, TRUE, st, NoOptions)
    \/ \E i \in 1..limits.pending : sessionConnected(i)
    \/ uiPrepPause
    \/ uiPlay
    \/ Settings
    \/ SettingsLooper
    \/ Seeking
    \/ SeekLooper(KnownReadings)
    \/ \E b \in BOOLEAN, r \in KnownReadings : onIsPlayingChanged(b, r)
    \/ \E m \in ErrorMessages : onPlayerError(m)
    \/ uiTeardown
    \/ uiRelease

SpecError == Init /\ [][NextError]_vars

\* The progress runnable taken in its two steps: the blocks and callbacks of the main
\* looper wait until run() has returned, whereas stop() is entered from the caller's
\* thread at any time.
RunReturned == progressRun # "running"

NextTimer ==
    \/ stop
    \/ \E r \in KnownReadings : progressFire(r)
    \/ progressRepost
    \/ \E r \in KnownReadings : progressStray(r)
    \/ RunReturned /\ \E st \in StartTimes : play(BaseTrack, TRUE, st, NoOptions)
    \/ RunReturned /\ \E i \in 1..limits.pending : sessionConnected(i)
    \/ RunReturned /\ uiPrepPause
    \/ RunReturned /\ uiPlay
    \/ RunReturned /\ \E r \in Readings : uiStop(r.dur)
    \/ RunReturned /\ \E b \in BOOLEAN, r \in Readings : onIsPlayingChanged(b, r)

SpecTimer == Init /\ [][NextTimer]_vars

\* The engine's signals while tracks are started, paused, resumed and stopped, with
\* every reading of the engine.
NextSignals ==
    \/ \E a \in BOOLEAN, st \in StartTimes : play(BaseTrack, a, st, NoOptions)
    \/ pause
    \/ resume
    \/ stop
    \/ \E i \in 1..limits.pending : sessionConnected(i)
    \/ uiPrepPause
    \/ uiPlay
    \/ \E r \in Readings : uiPause(r)
    \/ \E r \in Readings : uiResume(r)
    \/ \E r \in Readings : uiStop(r.dur)
    \/ \E b \in BOOLEAN, r \in Readings : onIsPlayingChanged(b, r)
    \/ \E b \in BOOLEAN, r \in Readings : onBuffering(enginerBrowser /\ b, r)
    \/ \E b \in BOOLEAN, r \in Readings : onReady(enginerBrowser /\ b, r)
    \/ \E r \in Readings : onEnded(Duration(r))
    \/ \E reason \in SeekClass, r \in Readings :
          onPositionDiscontinuity(reason, r.pos, Duration(r))

SpecSignals == Init /\ [][NextSignals]_vars

\* ------------------------------------------------------------------ claims
\* The STATE_CHANGED events of a step, after the latest one emitted before it.
StateTimeline == <<lastStateEvt>> \o StateEvtsOf(emitted')

\* C1: no two consecutive STATE_CHANGED events emitted by the controller carry the
\* same state value.
C1_NoDuplicateState ==
    [][\A i \in 1..(Len(StateTimeline) - 1) :
          StateTimeline[i].state # StateTimeline[i + 1].state]_vars

\* C2: an ENDED signal, in any state, emits exactly STATE_CHANGED:STOPPED with
\* position 0 and the (sanitized) duration, immediately followed by TRACK_ENDED
\* with position equal to that duration.
C2_EndedEmitsStoppedThenTrackEnded ==
    lastOp.op = "ENDED" =>
        emitted = <<StateEvt(STATE_STOPPED, 0, Sanitize(lastOp.arg.dur), activeTrack),
                    NoticeEvt("TRACK_ENDED", Sanitize(lastOp.arg.dur),
                              Sanitize(lastOp.arg.dur), activeTrack)>>

\* C2 witnesses: ENDED arrived while the error flag was set; ENDED arrived right
\* after STOPPED had been emitted.
C2_EndedWhileInError ==
    /\ lastOp.op = "ENDED"
    /\ lastStateEvt.state = STATE_STOPPED
    /\ internalStore.error # None
    /\ activeTrack = NoTrack

\* C3: a PLAYER_ERROR callback that finds the error flag set is ignored (no event,
\* no change, no second teardown); one that finds it unset emits exactly
\* PLAYBACK_ERROR then STATE_CHANGED:ERROR, posts the teardown once and sets the flag,
\* so that consecutive callbacks produce one pair.
C3_RepeatedErrorIgnored ==
    [][lastOp'.op = "PLAYER_ERROR" =>
         IF flowIsInErrorState
         THEN /\ emitted' = <<>>
              /\ engineCalls' = <<>>
              /\ UNCHANGED <<ctrlVars, internalStore, lastStateEvt>>
         ELSE /\ emitted' = <<PlayerErrorEvt(MessageOf(lastOp'.arg.error), 500,
                                             activeTrack),
                              StateEvt(STATE_ERROR, 0, 0, NoTrack)>>
              /\ uiQueue' = uiQueue \o <<[kind |-> "teardown"], [kind |-> "release"]>>
              /\ flowIsInErrorState']_vars

\* C3 witness: a PLAYER_ERROR callback arrived while the error flag was set, after
\* the pair of the first one had reached the store.
C3_SecondErrorArrived ==
    /\ lastOp = Op("PLAYER_ERROR", [wasInError |-> TRUE])
    /\ flowIsInErrorState
    /\ internalStore.playerState = STATE_ERROR
    /\ internalStore.error # None

\* C4: while the last emitted state is ERROR, no step emits STATE_CHANGED with
\* state STOPPED or PAUSED (clear emits IDLE and a new error reset emits ERROR).
C4_NoStoppedOrPausedAfterError ==
    [][lastStateEvt.state = STATE_ERROR =>
         \A i \in 1..Len(emitted') :
            emitted'[i].type = "STATE_CHANGED" =>
               emitted'[i].state \notin {STATE_STOPPED, STATE_PAUSED}]_vars

\* C5: on a seek-class discontinuity exactly one SEEK_COMPLETE is emitted; it has
\* triggeredBy USER and the pending target as position iff a pending seek is set,
\* otherwise SYSTEM and the engine's position; the pending seek is null afterwards.
C5_SeekAttribution ==
    [][lastOp'.op = "DISCONTINUITY" /\ lastOp'.arg.reason \in SeekClass =>
         /\ Len(emitted') = 1
         /\ emitted'[1].type = "SEEK_COMPLETE"
         /\ IF flowPendingSeekPosition # None
            THEN /\ emitted'[1].triggeredBy = "USER"
                 /\ emitted'[1].position = flowPendingSeekPosition[1]
            ELSE /\ emitted'[1].triggeredBy = "SYSTEM"
                 /\ emitted'[1].position = lastOp'.arg.pos
         /\ flowPendingSeekPosition' = None]_vars

\* C5 witness: a seek-class discontinuity reported the pending target, which was not
\* the position the engine reported.
C5_UserSeekCompleted ==
    /\ lastOp.op = "DISCONTINUITY"
    /\ lastOp.arg.reason \in SeekClass
    /\ lastOp.arg.pending # None
    /\ emitted[1].triggeredBy = "USER"
    /\ emitted[1].position # lastOp.arg.pos
    /\ flowPendingSeekPosition = None

\* C6: seekTo(p), p >= 0, followed by the next seek-class discontinuity emits
\* SEEK_COMPLETE with position exactly p and triggeredBy USER, whatever duration the
\* engine reported when the seek was processed.
C6_SeekCompleteReportsTarget ==
    [][(/\ lastOp.op = "ui_seekTo"
        /\ lastOp'.op = "DISCONTINUITY"
        /\ lastOp'.arg.reason \in SeekClass) =>
          /\ emitted'[1].triggeredBy = "USER"
          /\ emitted'[1].position = lastOp.arg.position]_vars

\* C7: when the block of a stop() issued for a track of the store has run (here
\* right after the command, with nothing else waiting), the last emitted state is
\* STOPPED with position 0 and the track is still set in store and controller.
C7_StoppedAfterStop ==
    [][(/\ lastOp.op = "stop"
        /\ lastOp'.op = "ui_stop"
        /\ Len(uiQueue) = 1
        /\ internalStore.trackPlaying # NoTrack) =>
          /\ lastStateEvt'.state = STATE_STOPPED
          /\ lastStateEvt'.position = 0
          /\ activeTrack' # NoTrack
          /\ internalStore'.trackPlaying # NoTrack]_vars

FacadeOps ==
    {"play", "pause", "resume", "stop", "clear", "seekTo", "setPlaybackSpeed",
     "setVolume"}

\* No play() is waiting for its session or for the main looper.
NoPlayPending ==
    /\ \A i \in DOMAIN pendingSessions : pendingSessions[i].kind # "play"
    /\ \A i \in DOMAIN uiQueue : uiQueue[i].kind \notin {"prepPause", "play"}

\* The state clear() leaves: IDLE at (0, 0) is the last state emitted and no track
\* is set in the store or in the controller.
Cleared ==
    /\ lastStateEvt = StateEvt(STATE_IDLE, 0, 0, NoTrack)
    /\ activeTrack = NoTrack
    /\ internalStore.trackPlaying = NoTrack
    /\ NoPlayPending

\* C8: after clear(), while its deferred work is processed and as long as no
\* command follows, the last emitted STATE_CHANGED stays IDLE at (0, 0) and the
\* track stays null in store and controller.
C8_ClearedStaysIdle ==
    [][Cleared /\ lastOp'.op \notin FacadeOps => Cleared']_vars

\* C9: after clear(), volume and playback speed are 1.0 in the store and in the
\* controller.
C9_ClearResetsVolumeAndSpeed ==
    lastOp.op = "clear" =>
        /\ internalStore.volume = 100000
        /\ internalStore.playbackSpeed = 100000
        /\ activeVolume = 100000
        /\ activePlaybackSpeed = 100000

GuardedOps == {"pause", "resume", "seekTo", "seekForward", "seekBack"}

\* A step that reaches neither the native module nor the engine and leaves the
\* store and the controller as they were.
NothingDone ==
    /\ nativeCalls' = <<>>
    /\ engineCalls' = <<>>
    /\ UNCHANGED <<internalStore, ctrlVars>>

\* C11: pause, resume, seekTo, seekForward and seekBack with no track in the store
\* emit exactly one PLAYBACK_ERROR (-1) and do nothing else; with a track but the
\* store IDLE or ERROR they emit nothing and do nothing; a negative seekTo position
\* or a non-positive skip amount is not forwarded; the store is unchanged in all
\* these cases.
C11_GuardedCommandsRejected ==
    [][lastOp'.op \in GuardedOps =>
         /\ ~guardTrackPlaying => emitted' = GuardError /\ NothingDone
         /\ guardTrackPlaying /\ ~isValidPlayerStateForOperation =>
               emitted' = <<>> /\ NothingDone
         /\ lastOp'.op = "seekTo" /\ lastOp'.arg.position < 0 => NothingDone
         /\ lastOp'.op \in {"seekForward", "seekBack"} /\ lastOp'.arg.amount <= 0 =>
               NothingDone]_vars

\* C11 witness: seekBack was turned down silently because the store, holding the
\* track of a play() not yet started, was still IDLE.
C11_SkipWhileIdleWithTrack ==
    /\ lastOp = Op("seekBack", [amount |-> 2, sent |-> FALSE])
    /\ emitted = <<>>
    /\ internalStore.trackPlaying = BaseTrack
    /\ internalStore.playerState = STATE_IDLE

BothRequested(options) ==
    options.showNextPrevControls = Some(TRUE) /\ options.showSkipControls = Some(TRUE)

\* The two lock-screen control sets are not both on, in the stored configuration
\* and in the controller's settings.
ControlsExclusive ==
    /\ ~BothRequested(internalStore.configureOptions)
    /\ ~(settings.showNextPrevControls /\ settings.showSkipControls)

C13_ProgressIntervalInRange ==
    /\ internalStore.configureOptions.progressIntervalMs # None
    /\ internalStore.configureOptions.progressIntervalMs[1] >= 100
    /\ internalStore.configureOptions.progressIntervalMs[1] <= 10000
    /\ settings.progressIntervalMs >= 100
    /\ settings.progressIntervalMs <= 10000

\* C14: after any setPlaybackSpeed(s) and setVolume(v) calls with any numbers the
\* stored speed is within [0.25, 2.0] and the stored volume within [0, 1]; an
\* argument out of range is stored as the nearest bound.
C14_SpeedAndVolumeClamped ==
    [][/\ LessEq(25000, internalStore'.playbackSpeed)
       /\ LessEq(internalStore'.playbackSpeed, 200000)
       /\ LessEq(0, internalStore'.volume)
       /\ LessEq(internalStore'.volume, 100000)
       /\ lastOp'.op = "setPlaybackSpeed" /\ Less(200000, lastOp'.arg.speed) =>
             internalStore'.playbackSpeed = 200000
       /\ lastOp'.op = "setPlaybackSpeed" /\ Less(lastOp'.arg.speed, 25000) =>
             internalStore'.playbackSpeed = 25000
       /\ lastOp'.op = "setVolume" /\ Less(100000, lastOp'.arg.volume) =>
             internalStore'.volume = 100000
       /\ lastOp'.op = "setVolume" /\ Less(lastOp'.arg.volume, 0) =>
             internalStore'.volume = 0]_vars

\* C15: whenever the store's playback state is IDLE, the store's track is null and
\* its position and duration are 0, in every reachable state.
C15_IdleStoreHasNoTrack ==
    internalStore.playerState = STATE_IDLE =>
        /\ internalStore.trackPlaying = NoTrack
        /\ internalStore.position = 0
        /\ internalStore.duration = 0

\* C16: every STATE_CHANGED:STOPPED event, whatever produced it, carries position 0
\* and a non-null track.
C16_StoppedCarriesTrack ==
    [][\A i \in DOMAIN emitted' :
         emitted'[i].type = "STATE_CHANGED" /\ emitted'[i].state = STATE_STOPPED =>
             /\ emitted'[i].position = 0
             /\ emitted'[i].track # NoTrack]_vars

\* C17: normalizeVolume maps every input to a value in [0, 1] with at most two
\* decimals: |v| < 0.001 gives 0, (0.995, 1] gives 1, above 1 gives 1, below 0 gives
\* 0, other inputs are rounded to two decimals (0.0005 -> 0, 0.998 -> 1,
\* 0.55555 -> 0.56, 1.5 -> 1, -0.5 -> 0).
C17_NormalizeVolume ==
    lastOp.op = "normalizeVolume" =>
        LET v == lastOp.arg.volume
            r == lastOp.arg.result
        IN  /\ LessEq(0, r) /\ LessEq(r, 100000)
            /\ r % 1000 = 0
            /\ Less(MathAbs(v), 100) => r = 0
            /\ Less(99500, v) /\ LessEq(v, 100000) => r = 100000
            /\ Less(100000, v) => r = 100000
            /\ Less(v, 0) => r = 0
            /\ LessEq(100, v) /\ LessEq(v, 99500) => 2 * MathAbs(r - v) <= 1000
            /\ v = 50 => r = 0
            /\ v = 99800 => r = 100000
            /\ v = 55555 => r = 56000
            /\ v = 150000 => r = 100000
            /\ v = -50000 => r = 0

AcceptedSchemes == {"http://"}

NonEmptyString(v) == IsString(v) /\ v.s # <<>>

NonBlankString(v) == IsString(v) /\ Trim(v.s) # <<>>

HasAcceptedScheme(v) == NonEmptyString(v) /\ v.s[1] \in AcceptedSchemes

OptionalString(v) == v = Undefined \/ IsString(v)

\* The tracks the claim takes to be valid: non-empty fields and accepted schemes.
ValidAsClaimed(track) ==
    /\ track # NoTrack
    /\ NonEmptyString(track.id) /\ NonEmptyString(track.title)
    /\ HasAcceptedScheme(track.url) /\ HasAcceptedScheme(track.artwork)
    /\ OptionalString(track.album) /\ OptionalString(track.artist)

\* The tracks with id, url, title and artwork strings that are not blank, whatever
\* the scheme, and album and artist strings when present.
WellFormed(track) ==
    /\ track # NoTrack
    /\ NonBlankString(track.id) /\ NonBlankString(track.title)
    /\ NonBlankString(track.url) /\ NonBlankString(track.artwork)
    /\ OptionalString(track.album) /\ OptionalString(track.artist)

\* C18 as stated: validateTrack(track) is true if and only if id, url, title and
\* artwork are non-empty strings, url and artwork begin with an accepted scheme,
\* and album and artist are strings when present; play() hands a track to the
\* native module only then.
C18_ValidIffAcceptedSchemes ==
    [][/\ lastOp'.op = "validateTrack" =>
             (lastOp'.arg.result <=> ValidAsClaimed(lastOp'.arg.track))
       /\ lastOp'.op = "play" /\ nativeCalls' # <<>> =>
             ValidAsClaimed(internalStore'.trackPlaying)]_vars

\* C18 amended: validateTrack(track) is true if and only if id, url, title and
\* artwork are strings that are not blank (any scheme), and album and artist are
\* strings when present; play() hands a track to the native module only then.
C18_ValidIffWellFormed ==
    [][/\ lastOp'.op = "validateTrack" =>
             (lastOp'.arg.result <=> WellFormed(lastOp'.arg.track))
       /\ lastOp'.op = "play" =>
             /\ lastOp'.arg.valid <=> nativeCalls' = <<"play">>
             /\ nativeCalls' # <<>> => WellFormed(internalStore'.trackPlaying)]_vars

\* C18 witness: play() handed over a track whose url has no accepted scheme.
C18_UnknownSchemePlayed ==
    /\ lastOp.op = "play"
    /\ nativeCalls = <<"play">>
    /\ internalStore.trackPlaying.url = Str(<<"ftp://", "x">>)

AmbientOps ==
    {"ambientPlay", "ambientStop", "ambientSetVolume", "ambientPause",
     "ambientResume", "ambientSeekTo"}

\* C20: no ambient command changes a field of the main player's store or
\* controller or emits a main-player event; ambientPlay with an empty or missing
\* url emits exactly one AMBIENT_ERROR on the ambient emitter, makes no native call
\* and changes nothing else.
C20_AmbientIsolated ==
    [][lastOp'.op \in AmbientOps =>
         /\ UNCHANGED <<internalStore, ctrlVars, lastStateEvt>>
         /\ engineCalls' = <<>>
         /\ \A i \in DOMAIN emitted' : emitted'[i] = AmbientErrorEvt
         /\ IF lastOp'.op = "ambientPlay" /\ Falsy(lastOp'.arg.url)
            THEN emitted' = <<AmbientErrorEvt>> /\ nativeCalls' = <<>>
            ELSE emitted' = <<>> /\ nativeCalls' = <<lastOp'.op>>]_vars

\* C20 witness: ambientPlay with an empty url was turned down while the main player
\* had a track loading.
C20_EmptyUrlWhileMainLoading ==
    /\ lastOp.op = "ambientPlay"
    /\ lastOp.arg.url = Str(<<>>)
    /\ emitted = <<AmbientErrorEvt>>
    /\ internalStore.playerState = STATE_LOADING
    /\ activeTrack = BaseTrack

\* A play() has been accepted and its block has not run yet.
PlayWaiting == ~NoPlayPending

\* C21: after a valid play(), in any prior state, the next STATE_CHANGED emitted is
\* LOADING: while the play() waits for its session or for the main looper, no
\* step other than a further command emits another state first.
C21_LoadingFollowsPlay ==
    [][(/\ PlayWaiting
        /\ lastOp'.op \notin FacadeOps
        /\ StateEvtsOf(emitted') # <<>>) =>
          StateEvtsOf(emitted')[1].state = STATE_LOADING]_vars

\* C22: the block of a play() with autoPlay=false emits LOADING then PAUSED and no
\* PLAYING, and leaves PAUSED as the last state; it starts nothing and seeks
\* nowhere in the engine; a startTimeMs given with autoPlay=false is discarded, so
\* that the play() sets no pending seek; the engine is told to play only by a
\* resume() or by a play() with autoPlay.
C22_PausedLoadNoSeek ==
    [][/\ lastOp'.op = "ui_play" /\ ~lastOp'.arg.autoPlay =>
            /\ \A i \in DOMAIN emitted' :
                  emitted'[i].type = "STATE_CHANGED"
                     /\ emitted'[i].state \in {STATE_LOADING, STATE_PAUSED}
            /\ emitted' # <<>>
            /\ lastStateEvt'.state = STATE_PAUSED
            /\ ~HasCall(engineCalls', "play")
            /\ ~HasCall(engineCalls', "seekTo")
       /\ lastOp'.op \in {"play", "connected"} /\ nativeCalls' = <<"play">>
            /\ ~lastOp'.arg.autoPlay =>
               /\ \A i \in DOMAIN pendingSessions' :
                     pendingSessions'[i].kind = "play" /\ ~pendingSessions'[i].autoPlay =>
                        pendingSessions'[i].startTimeMs = None
               /\ enginerBrowser => flowPendingSeekPosition' = None
       /\ HasCall(engineCalls', "play") =>
            \/ lastOp'.op = "ui_resume"
            \/ lastOp'.op = "ui_play" /\ lastOp'.arg.autoPlay]_vars

LifecycleCallbacks ==
    {"IS_PLAYING", "BUFFERING", "READY", "ENDED", "ENGINE_IDLE", "DISCONTINUITY"}

\* C23: once clear() or the error teardown has emitted its final state (IDLE or
\* ERROR), and until the next play(), no engine lifecycle callback emits an event
\* or starts the progress timer.
C23_NoCallbackAfterTeardown ==
    [][(/\ lastStateEvt.state \in {STATE_IDLE, STATE_ERROR}
        /\ lastOp.op \in {"clear", "PLAYER_ERROR"}
        /\ NoPlayPending
        /\ lastOp'.op \in LifecycleCallbacks) =>
          /\ emitted' = <<>>
          /\ ~engineProgressRunnable']_vars

\* C24: when the block of a stop(), or the last block of the teardown of clear() or
\* of an engine error, has run, and no play() is waiting, the pending seek is null,
\* also when a seekTo was issued right before the command.
C24_TeardownClearsPendingSeek ==
    [][lastOp'.op \in {"ui_stop", "ui_release"} /\ NoPlayPending =>
         flowPendingSeekPosition' = None]_vars

\* C25: the first PLAYER_ERROR in a non-error state emits PLAYBACK_ERROR, carrying
\* the error's message, and then STATE_CHANGED:ERROR with position 0 and duration
\* 0; when the callback returns the active track and the pending seek are null,
\* the progress timer is stopped and the controller's volume and speed are 1.0.
C25_FirstErrorTearsDown ==
    [][lastOp'.op = "PLAYER_ERROR" /\ ~flowIsInErrorState =>
         /\ Len(emitted') = 2
         /\ emitted'[1].type = "PLAYBACK_ERROR"
         /\ emitted'[1].error = MessageOf(lastOp'.arg.error)
         /\ emitted'[1].track = activeTrack
         /\ emitted'[2] = StateEvt(STATE_ERROR, 0, 0, NoTrack)
         /\ activeTrack' = NoTrack
         /\ flowPendingSeekPosition' = None
         /\ ~engineProgressRunnable'
         /\ activeVolume' = 100000
         /\ activePlaybackSpeed' = 100000]_vars

\* C25 witness: the first error arrived with its message for a track that had a
\* volume and a speed of its own, which the store still shows, and the teardown
\* is posted.
C25_ErrorWhilePlaying ==
    /\ lastOp = Op("PLAYER_ERROR", [wasInError |-> FALSE, error |-> Some("decoder failed")])
    /\ emitted[1].error = "decoder failed"
    /\ emitted[1].track = BaseTrack
    /\ internalStore.volume = 50000
    /\ internalStore.playbackSpeed = 200000
    /\ internalStore.playerState = STATE_ERROR
    /\ activeVolume = 100000
    /\ uiQueue = <<[kind |-> "teardown"], [kind |-> "release"]>>

\* C26: after STOPPED has been emitted no PAUSED is emitted until another state has
\* been: the state event that follows a STOPPED is never PAUSED, whether a late
\* IS_PLAYING(false), READY or BUFFERING callback or a pause() produces it.
C26_NoPausedAfterStopped ==
    [][lastStateEvt.state = STATE_STOPPED /\ StateEvtsOf(emitted') # <<>> =>
         StateEvtsOf(emitted')[1].state # STATE_PAUSED]_vars

\* The number of STATE_CHANGED:PLAYING events among evts.
PlayingCount(evts) ==
    Len(SelectSeq(evts, LAMBDA e : e.type = "STATE_CHANGED" /\ e.state = STATE_PLAYING))

\* C27: in every run of the signals BUFFERING, READY, IS_PLAYING(true) exactly one
\* STATE_CHANGED:PLAYING is emitted: BUFFERING emits none; READY emits one if the
\* engine reports playing and none otherwise; IS_PLAYING(true) emits one if READY
\* emitted none and none if READY emitted one.
C27_OnePlayingPerStart ==
    [][/\ lastOp'.op = "BUFFERING" => PlayingCount(emitted') = 0
       /\ lastOp.op = "BUFFERING" /\ lastOp'.op = "READY" =>
             PlayingCount(emitted') = IF lastOp'.arg.isPlaying THEN 1 ELSE 0
       /\ lastOp.op = "READY" /\ lastOp'.op = "IS_PLAYING" /\ lastOp'.arg.isPlaying =>
             PlayingCount(emitted') = IF lastOp.arg.isPlaying THEN 0 ELSE 1]_vars

\* C27 witness: IS_PLAYING(true) arrived for a track whose PLAYING had gone out
\* already, and emitted nothing more.
C27_PlayingNotRepeated ==
    /\ lastOp = Op("IS_PLAYING", [isPlaying |-> TRUE])
    /\ emitted = <<>>
    /\ lastStateEvt.state = STATE_PLAYING
    /\ lastStateEvt.track = BaseTrack
    /\ flowLastEmittedState = STATE_PLAYING
    /\ engineProgressRunnable

\* C28: on a BUFFERING signal with the play-when-ready flag true, LOADING is
\* emitted unless it was the last state emitted; with the flag false, PAUSED is
\* emitted only if the state emitted last was PLAYING, and nothing is emitted
\* otherwise; nothing but state events is emitted, and timer and pending seek are
\* left alone.
C28_BufferingEmits ==
    [][lastOp'.op = "BUFFERING" =>
         /\ IF lastOp'.arg.isPlayIntended
            THEN IF flowLastEmittedState = STATE_LOADING
                 THEN emitted' = <<>>
                 ELSE /\ Len(emitted') = 1
                      /\ emitted'[1].type = "STATE_CHANGED"
                      /\ emitted'[1].state = STATE_LOADING
                      /\ emitted'[1].track = activeTrack
            ELSE /\ emitted' # <<>> =>
                      /\ lastStateEvt.state = STATE_PLAYING
                      /\ Len(emitted') = 1
                      /\ emitted'[1].type = "STATE_CHANGED"
                      /\ emitted'[1].state = STATE_PAUSED
                 /\ flowLastEmittedState = STATE_PLAYING => emitted' # <<>>
                 /\ flowLastEmittedState # STATE_PLAYING => emitted' = <<>>
         /\ UNCHANGED <<engineProgressRunnable, flowPendingSeekPosition>>]_vars

\* C28 witness: BUFFERING arrived with play not intended during the load of a track
\* started with autoPlay=false, PAUSED being the last state, and emitted nothing.
C28_BufferingWhilePausedLoad ==
    /\ lastOp = Op("BUFFERING", [isPlayIntended |-> FALSE])
    /\ emitted = <<>>
    /\ lastStateEvt = StateEvt(STATE_PAUSED, 0, 0, BaseTrack)
    /\ flowLastEmittedState = STATE_PAUSED

\* C29: on a READY signal a pending seek, if one is set, is issued to the connected
\* engine and stays set; then PLAYING is emitted and the progress timer started
\* if the engine reports playing, else PAUSED is emitted and the timer stopped,
\* the emission being subject to the suppression rules (no state twice in a row,
\* no PAUSED after STOPPED).
C29_ReadyIssuesPendingSeek ==
    [][lastOp'.op = "READY" =>
         LET state == IF lastOp'.arg.isPlaying THEN STATE_PLAYING ELSE STATE_PAUSED
             suppressed ==
                 \/ state = flowLastEmittedState
                 \/ state = STATE_PAUSED /\ flowLastEmittedState = STATE_STOPPED
         IN  /\ engineCalls' =
                  IF flowPendingSeekPosition # None /\ enginerBrowser
                  THEN <<<<"seekTo", flowPendingSeekPosition[1]>>>> ELSE <<>>
             /\ flowPendingSeekPosition' = flowPendingSeekPosition
             /\ IF suppressed THEN emitted' = <<>>
                ELSE /\ Len(emitted') = 1
                     /\ emitted'[1].type = "STATE_CHANGED"
                     /\ emitted'[1].state = state
                     /\ emitted'[1].track = activeTrack
             /\ engineProgressRunnable' = lastOp'.arg.isPlaying]_vars

\* C29 witness: READY arrived for a track started with a startTimeMs: the seek to
\* it was issued, the marker is still set, PLAYING went out and the timer runs.
C29_ReadyWithStartTime ==
    /\ lastOp = Op("READY", [isPlaying |-> TRUE])
    /\ engineCalls = <<<<"seekTo", 4>>>>
    /\ flowPendingSeekPosition = Some(4)
    /\ Len(emitted) = 1
    /\ emitted[1].state = STATE_PLAYING
    /\ emitted[1].track = BaseTrack
    /\ engineProgressRunnable

TeardownBlocks(queue) ==
    SelectSeq(queue, LAMBDA b : b.kind \in {"teardown", "release"})

\* C30: stop() and its block never release the session and never detach the
\* listener: the browser and the listener are as they were, nothing is released
\* and no teardown is posted; when stop()'s block has emitted STOPPED the session
\* is connected and the listener attached, and an IS_PLAYING(true) handled then
\* emits PLAYING for the track and starts the progress timer.
C30_StopKeepsSession ==
    [][/\ lastOp'.op \in {"stop", "ui_stop"} =>
            /\ UNCHANGED <<enginerBrowser, enginePlayerListener>>
            /\ ~HasCall(engineCalls', "release")
            /\ TeardownBlocks(uiQueue') = TeardownBlocks(uiQueue)
       /\ lastOp.op = "ui_stop" /\ emitted # <<>> =>
            /\ enginerBrowser
            /\ enginePlayerListener
            /\ lastOp'.op = "IS_PLAYING" /\ lastOp'.arg.isPlaying =>
                  /\ Len(emitted') = 1
                  /\ emitted'[1].type = "STATE_CHANGED"
                  /\ emitted'[1].state = STATE_PLAYING
                  /\ emitted'[1].track = activeTrack
                  /\ engineProgressRunnable']_vars

\* C30 witness: stop()'s block has emitted STOPPED for the track and the session
\* is still connected, with its listener attached.
C30_StoppedSessionConnected ==
    /\ lastOp.op = "ui_stop"
    /\ emitted # <<>>
    /\ lastStateEvt.state = STATE_STOPPED
    /\ lastStateEvt.track = BaseTrack
    /\ enginerBrowser
    /\ enginePlayerListener

CommandBlocks ==
    {"ui_pause", "ui_resume", "ui_stop", "ui_seekTo", "ui_setVolume",
     "ui_setPlaybackSpeed"}

\* C31: a pause, resume, stop, seekTo, setVolume or setPlaybackSpeed that reaches
\* the controller while no session is connected is applied to the engine once the
\* session is ready: when its block runs, it calls the engine.
C31_CommandAppliedOnceReady ==
    [][lastOp'.op \in CommandBlocks => engineCalls' # <<>>]_vars

\* The progress runnables that are posted on a handler: the one the controller
\* holds, and one posted after its timer was stopped.
TimersScheduled ==
    (IF engineProgressRunnable /\ progressRun # "running" THEN 1 ELSE 0)
        + (IF progressRun = "stray" THEN 1 ELSE 0)

\* C32: at most one progress timer instance is scheduled, and it is the one the
\* controller holds: once the timer is stopped, also by a stop() whose
\* stopProgressTimer runs outside the posted block while the runnable fires, no
\* instance is scheduled.
C32_OneProgressTimer ==
    TimersScheduled <= (IF engineProgressRunnable THEN 1 ELSE 0)

C34_OneSessionBuilt ==
    [][lastOp'.op = "connected" => ~enginerBrowser]_vars

TornDown ==
    /\ Cleared
    /\ ~enginerBrowser
    /\ ~enginePlayerListener
    /\ uiQueue = <<>>
    /\ pendingSessions = <<>>

\* C36: a stop() issued after clear() was processed, while IDLE, starts no session
\* build and emits no STATE_CHANGED.
C36_StopAfterClearBuildsNothing ==
    [][TornDown /\ lastOp'.op = "stop" => pendingSessions' = <<>> /\ emitted' = <<>>]_vars

\* C37: the progress timer is scheduled, and so PROGRESS is emitted, only while the
\* last emitted state is PLAYING; in the case the claim singles out, the
\* discontinuity of a user seek that arrives while the last emitted state is PAUSED
\* or STOPPED, with no timer scheduled, leaves none scheduled.
C37_TimerOnlyWhilePlaying ==
    [][(/\ lastOp'.op = "DISCONTINUITY"
        /\ lastOp'.arg.reason \in SeekClass
        /\ lastOp'.arg.pending # None
        /\ lastStateEvt'.state \in {STATE_PAUSED, STATE_STOPPED}
        /\ ~engineProgressRunnable)
          => ~engineProgressRunnable']_vars

\* C38: a seek-class discontinuity that answers an engine seek issued for the
\* facade (seekTo, seekForward, seekBack, the startTimeMs seek, a pending seek
\* re-issued by READY) is reported with triggeredBy USER; SYSTEM is reported only
\* when no such seek is in flight.
C38_FacadeSeekReportedUser ==
    [][(/\ lastOp'.op = "DISCONTINUITY"
        /\ lastOp'.arg.reason \in SeekClass
        /\ seeksInFlight > 0)
          => emitted'[1].triggeredBy = "USER"]_vars

PositionEvents == {"STATE_CHANGED", "PROGRESS", "TRACK_ENDED", "SEEK_COMPLETE"}

\* C39: every emitted STATE_CHANGED, PROGRESS, TRACK_ENDED and SEEK_COMPLETE carries
\* a position and a duration that are not negative.
C39_NonNegativePayload ==
    \A i \in DOMAIN emitted :
        emitted[i].type \in PositionEvents =>
            emitted[i].position >= 0 /\ emitted[i].duration >= 0

====
